---- MODULE Spec2Model ----
(***************************************************************************)
(* Staged registration drivers of ipl/registration.py: linear_register,    *)
(* non_linear_register_full and non_linear_register_increment, run by one  *)
(* or two processes over a shared file system and work directory.          *)
(*                                                                         *)
(* Lengths (blur_fwhm, step, start, level) are integers in quarter         *)
(* millimetres, so that the 0.25 mm and 0.5 mm entries of the default      *)
(* non-linear configuration are exact: 16 mm is Mm(16) = 64.               *)
(***************************************************************************)
EXTENDS Integers, Sequences, FiniteSets, TLC

VARIABLES
    run,     \* run[p]: the arguments process p called its driver with
    pc,      \* pc[p]: position of process p in its driver
    loc,     \* loc[p]: local variables of the driver (prev_xfm, i, tmp_source, ...)
    fs,      \* the file system: existing path -> content
    locks,   \* cache locks held: set of <<lock path, process>>
    calls,   \* calls[p]: external calls issued by process p, in order
    result   \* result[p]: "running", a return value or the error raised

vars == <<run, pc, loc, fs, locks, calls, result>>

----------------------------------------------------------------------------
(* Numbers and their str()                                                 *)

Mm(n) == 4 * n

\* A Python number: q quarter-millimetres, fl = it is a float literal.
PyInt(n) == [q |-> Mm(n), fl |-> FALSE]
PyFloat(q) == [q |-> q, fl |-> TRUE]

IntTok(n) ==
    CASE n = 0 -> "0" [] n = 1 -> "1" [] n = 2 -> "2" [] n = 3 -> "3"
      [] n = 4 -> "4" [] n = 5 -> "5" [] n = 6 -> "6" [] n = 7 -> "7"
      [] n = 8 -> "8" [] n = 9 -> "9" [] n = 10 -> "10" [] n = 11 -> "11"
      [] n = 12 -> "12" [] n = 16 -> "16" [] n = 32 -> "32"

FracTok(r) ==
    CASE r = 0 -> ".0" [] r = 1 -> ".25" [] r = 2 -> ".5" [] OTHER -> ".75"

\* str(x): "16" for the int 16, "16.0" for the float 16.0, "0.25" for 0.25.
Str(x) ==
    IF x.fl THEN <<IntTok(x.q \div 4), FracTok(x.q % 4)>>
    ELSE <<IntTok(x.q \div 4)>>

----------------------------------------------------------------------------
(* Paths: a directory and a file name; a name is a sequence of tokens so   *)
(* that string concatenation and rsplit act on it.                         *)

Path(d, n) == [d |-> d, n |-> n]
NoPath == Path("", <<>>)

RECURSIVE LastIndexOf(_, _)
LastIndexOf(name, tok) ==
    IF name = <<>> THEN 0
    ELSE IF name[Len(name)] = tok THEN Len(name)
    ELSE LastIndexOf(SubSeq(name, 1, Len(name) - 1), tok)

\* name.rsplit(tok, 1)[0]
RSplit0(name, tok) ==
    LET k == LastIndexOf(name, tok)
    IN  IF k = 0 THEN name ELSE SubSeq(name, 1, k - 1)

\* os.path.basename(f).rsplit('.gz',1)[0].rsplit('.mnc',1)[0]
BaseName(f) == RSplit0(RSplit0(f.n, ".gz"), ".mnc")

----------------------------------------------------------------------------
(* Stage configurations                                                    *)

EstTrans == [ty |-> "list", v |-> <<"-est_translations">>]
NoTrans == [ty |-> "NoneType", v |-> <<>>]
StrTrans == [ty |-> "str", v |-> <<"-est_translations">>]

LinStage(blur, trans, fwhm, steps, tol, simplex) ==
    [blur |-> blur, trans |-> trans, blur_fwhm |-> PyInt(fwhm),
     steps |-> <<steps, steps, steps>>, tolerance |-> tol, simplex |-> simplex]

WithParameters(c, par) ==
    [k \in DOMAIN c \cup {"parameters"} |-> IF k = "parameters" THEN par ELSE c[k]]

WithReverse(c, rev) ==
    [k \in DOMAIN c \cup {"reverse"} |-> IF k = "reverse" THEN rev ELSE c[k]]

bestlinreg ==
    << LinStage("blur", EstTrans, 16, 8, "0.01", 32),
       LinStage("blur", NoTrans, 8, 4, "0.004", 16),
       LinStage("blur", NoTrans, 4, 4, "0.004", 8),
       LinStage("dxyz", NoTrans, 8, 4, "0.004", 4),
       LinStage("dxyz", NoTrans, 4, 4, "0.004", 2) >>

bestlinreg_s ==
    << LinStage("blur", EstTrans, 16, 8, "0.01", 32),
       LinStage("blur", NoTrans, 8, 4, "0.004", 16),
       LinStage("blur", NoTrans, 8, 4, "0.0001", 16),
       LinStage("blur", NoTrans, 4, 4, "0.0001", 8),
       LinStage("blur", NoTrans, 2, 2, "0.0005", 4) >>

bestlinreg_s2 == bestlinreg

experiment_1 ==
    << LinStage("blur", EstTrans, 8, 8, "0.01", 32),
       LinStage("blur", NoTrans, 8, 4, "0.004", 16),
       LinStage("blur", NoTrans, 4, 4, "0.004", 8),
       LinStage("dxyz", NoTrans, 8, 4, "0.004", 4),
       LinStage("dxyz", NoTrans, 4, 4, "0.004", 2) >>

bestlinreg_new ==
    << WithParameters(LinStage("blur", EstTrans, 8, 4, "0.0001", 16), "-lsq6"),
       WithParameters(LinStage("blur", NoTrans, 8, 4, "0.0001", 16), "-lsq7"),
       LinStage("blur", NoTrans, 4, 4, "0.0001", 8),
       LinStage("blur", NoTrans, 2, 2, "0.0005", 4) >>

bestlinreg_20171223 ==
    << WithParameters(LinStage("blur", EstTrans, 8, 4, "0.0001", 16), "-lsq6"),
       WithParameters(LinStage("blur", NoTrans, 8, 4, "0.0001", 16), "-lsq7"),
       LinStage("blur", NoTrans, 4, 4, "0.0001", 8),
       WithReverse(LinStage("blur", NoTrans, 2, 2, "0.00001", 4), TRUE) >>

PresetNames ==
    {"bestlinreg", "bestlinreg_s", "bestlinreg_s2", "experiment_1",
     "bestlinreg_new", "bestlinreg_20171223"}

linear_registration_config(name) ==
    CASE name = "bestlinreg" -> bestlinreg
      [] name = "bestlinreg_s" -> bestlinreg_s
      [] name = "bestlinreg_s2" -> bestlinreg_s2
      [] name = "experiment_1" -> experiment_1
      [] name = "bestlinreg_new" -> bestlinreg_new
      [] name = "bestlinreg_20171223" -> bestlinreg_20171223

NlStage(step, fwhm, iterations) ==
    [step |-> PyFloat(step), blur_fwhm |-> PyFloat(fwhm),
     iterations |-> iterations, blur |-> "blur"]

\* The default `parameters` of non_linear_register_full.
DefaultNlParameters ==
    [cost |-> "corrcoeff", weight |-> "1", stiffness |-> "1",
     similarity |-> "0.3", sub_lattice |-> "6",
     conf |-> << NlStage(Mm(32), Mm(16), 20), NlStage(Mm(16), Mm(8), 20),
                 NlStage(Mm(12), Mm(6), 20),  NlStage(Mm(8), Mm(4), 20),
                 NlStage(Mm(6), Mm(3), 20),   NlStage(Mm(4), Mm(2), 10),
                 NlStage(Mm(2), Mm(1), 10),   NlStage(Mm(1), Mm(1), 10),
                 NlStage(Mm(1), 2, 10),       NlStage(2, 1, 10) >>]

----------------------------------------------------------------------------
(* Arguments of a run                                                      *)

NoNum == [q |-> 0 - 1, fl |-> FALSE]      \* None where a number is optional
IsNone(x) == x.q < 0

ConfNone == [ty |-> "NoneType", name |-> "", stages |-> <<>>]
ConfName(n) == [ty |-> "str", name |-> n, stages |-> <<>>]
ConfList(l) == [ty |-> "list", name |-> "", stages |-> l]

Procs == DOMAIN run

----------------------------------------------------------------------------
(* File contents.  An image records the input file it was computed from    *)
(* and the operations applied; a transform records the optimizer           *)
(* invocation that produced it and how often it was inverted.              *)

Image(origin, ops, complete) ==
    [kind |-> "img", origin |-> origin, ops |-> ops, complete |-> complete]

InputImage(f) == Image(f, <<>>, TRUE)

\* Output of one optimizer invocation `minctracc first second ... out`.
Solution(p, i, first, second) ==
    [kind |-> "xfm", by |-> "minctracc", proc |-> p, stage |-> i,
     first |-> first, second |-> second, inv |-> FALSE]

GivenXfm(f) ==
    [kind |-> "xfm", by |-> "given", proc |-> 0, stage |-> 0,
     first |-> f, second |-> f, inv |-> FALSE]

Exists(f) == f \in DOMAIN fs

WriteFile(files, f, c) ==
    [g \in DOMAIN files \cup {f} |-> IF g = f THEN c ELSE files[g]]

RemoveFile(files, f) == [g \in DOMAIN files \ {f} |-> files[g]]

----------------------------------------------------------------------------
(* minc_tools: the library the drivers are written against                 *)

\* mincTools.checkfiles(inputs, outputs): FALSE when an output exists.
checkfiles(outputs) == \A o \in outputs : ~Exists(o)

\* cache_files(work_dir, context='reg'): the cache directory of a run, and
\* its private directory of run-scoped temporaries.
TmpDir(p) == "tmp" \o ToString(p)
CacheDir(p) ==
    IF run[p].work_dir = "" THEN TmpDir(p) ELSE run[p].work_dir \o "/reg"

\* cache_files.tmp(name)
tmp(p, name) == Path(TmpDir(p), name)

\* cache_files.cache(name): the path of the entry.  With a work directory
\* the call also takes the entry's lock and blocks while another process
\* holds it.
cache(p, name) == Path(CacheDir(p), name)
Locked(p) == run[p].work_dir # ""
CanLock(p, f) == Locked(p) => \A l \in locks : l[1] = f => l[2] = p
Lock(p, f) == IF Locked(p) THEN locks \cup {<<f, p>>} ELSE locks

\* cache_files.unlock(path)
unlock(p, f) == locks \ {<<f, p>>}

\* cache_files.__exit__: every lock of the run is released
unlock_all(p) == {l \in locks : l[2] # p}

\* xfminvert: the inverse transform
Invert(x) == [x EXCEPT !.inv = ~@]

\* mincblur / resample: the operation appended to the image's history
Processed(img, op) == Image(img.origin, Append(img.ops, op), TRUE)

----------------------------------------------------------------------------
(* Process state                                                           *)

NoLoc ==
    [i |-> 0, conf |-> <<>>, parameters |-> "", objective |-> "",
     prev_xfm |-> NoPath, prev_grid |-> NoPath,
     source_lr |-> NoPath, target_lr |-> NoPath,
     source_mask_lr |-> NoPath, target_mask_lr |-> NoPath,
     tmp_xfm |-> NoPath, tmp_grid |-> NoPath,
     tmp_source |-> NoPath, tmp_target |-> NoPath,
     init |-> <<>>, ret |-> ""]

\* Leaving the driver: the `with cache_files(...)` block exits, by return
\* or by exception, and the run's locks are released.
Leave(p, res) ==
    /\ result' = [result EXCEPT ![p] = res]
    /\ pc' = [pc EXCEPT ![p] = "done"]
    /\ locks' = unlock_all(p)

Goto(p, label) == pc' = [pc EXCEPT ![p] = label]

Call(p, c) == calls' = [calls EXCEPT ![p] = Append(@, c)]

\* An external tool exits non-zero: mincError propagates out of the driver.
ToolFails(p, c) ==
    /\ Call(p, [c EXCEPT !.ok = FALSE])
    /\ Leave(p, "mincError")

s_base(p) == BaseName(run[p].source)
t_base(p) == BaseName(run[p].target)

----------------------------------------------------------------------------
(* linear_register                                                         *)

\* lines 324-328: None is the default preset, a known name is its preset,
\* any other string is kept as it is.
ResolveConf(conf) ==
    IF conf.ty = "NoneType" THEN ConfList(linear_registration_config("bestlinreg"))
    ELSE IF conf.ty # "list" /\ conf.name \in PresetNames
         THEN ConfList(linear_registration_config(conf.name))
    ELSE conf

DefaultParameters(parameters) == IF parameters = "None" THEN "-lsq9" ELSE parameters
DefaultObjective(objective) == IF objective = "None" THEN "-xcorr" ELSE objective

\* cmd of the external program (lines 340-350)
ExternalCmd(r) ==
    [tool |-> r.conf.name, ok |-> TRUE, source |-> r.source, target |-> r.target,
     out |-> r.output_xfm, source_mask |-> r.source_mask,
     target_mask |-> r.target_mask,
     parameters |-> DefaultParameters(r.parameters),
     objective |-> DefaultObjective(r.objective), init_xfm |-> r.init_xfm]

ExternalXfm(p) ==
    [kind |-> "xfm", by |-> "external", proc |-> p, stage |-> 0,
     first |-> run[p].source, second |-> run[p].target, inv |-> FALSE]

\* a variant that does not look at the output
L_OutputExists_Ignored(p) == FALSE

\* lines 319-321: nothing to do when the output is already there
L_OutputExists(p) == ~checkfiles({run[p].output_xfm})

\* a variant that downsamples before it looks at the kind of conf
L_Enter_DownsampleFirst(p) ==
    /\ pc[p] = "start"
    /\ run[p].driver = "linear_register"
    /\ UNCHANGED <<run, fs, calls>>
    /\ IF L_OutputExists(p)
       THEN Leave(p, "None") /\ UNCHANGED loc
       ELSE LET conf == ResolveConf(run[p].conf)
            IN  /\ loc' = [loc EXCEPT ![p] =
                     [NoLoc EXCEPT !.i = 1,
                        !.conf = conf.stages,
                        !.parameters = DefaultParameters(run[p].parameters),
                        !.objective = DefaultObjective(run[p].objective),
                        !.source_lr = run[p].source,
                        !.target_lr = run[p].target,
                        !.source_mask_lr = run[p].source_mask,
                        !.target_mask_lr = run[p].target_mask]]
                /\ Goto(p, IF ~IsNone(run[p].downsample) THEN "ds_cache_source"
                           ELSE IF conf.ty # "list" THEN "external"
                           ELSE "l_loop")
                /\ UNCHANGED <<locks, result>>

L_Enter(p) ==
    /\ pc[p] = "start"
    /\ run[p].driver = "linear_register"
    /\ UNCHANGED <<run, fs, calls>>
    /\ IF L_OutputExists(p)
       THEN Leave(p, "None") /\ UNCHANGED loc
       ELSE LET conf == ResolveConf(run[p].conf)
            IN  /\ loc' = [loc EXCEPT ![p] =
                     [NoLoc EXCEPT !.i = 1,
                        !.conf = conf.stages,
                        !.parameters = DefaultParameters(run[p].parameters),
                        !.objective = DefaultObjective(run[p].objective),
                        !.source_lr = run[p].source,
                        !.target_lr = run[p].target,
                        !.source_mask_lr = run[p].source_mask,
                        !.target_mask_lr = run[p].target_mask]]
                /\ Goto(p, IF conf.ty # "list" THEN "external"
                           ELSE IF IsNone(run[p].downsample) THEN "l_loop"
                           ELSE "ds_cache_source")
                /\ UNCHANGED <<locks, result>>

\* lines 336-352: conf is still a string, taken as the name of a program
L_External(p) ==
    /\ pc[p] = "external"
    /\ UNCHANGED <<run, loc>>
    /\ \/ /\ Call(p, ExternalCmd(run[p]))
          /\ fs' = WriteFile(fs, run[p].output_xfm, ExternalXfm(p))
          /\ Leave(p, "output_xfm")
       \/ /\ ToolFails(p, ExternalCmd(run[p]))
          /\ UNCHANGED fs

----------------------------------------------------------------------------
(* Downsampling, the same block in both drivers (lines 367-379, 653-665)   *)

DsName(base, d) == base \o <<"_">> \o Str(d) \o <<".mnc">>
DsMaskName(base, d) == base \o <<"_mask_">> \o Str(d) \o <<".mnc">>

source_lr_path(p) == cache(p, DsName(s_base(p), run[p].downsample))
target_lr_path(p) == cache(p, DsName(t_base(p), run[p].downsample))
source_mask_lr_path(p) == cache(p, DsMaskName(s_base(p), run[p].downsample))
\* line 378 (and 664) builds the target mask's name from s_base
target_mask_lr_path(p) == cache(p, DsMaskName(s_base(p), run[p].downsample))

LoopOf(p) == IF run[p].driver = "linear_register" THEN "l_loop" ELSE "n_loop"

ResampleCall(tool, in, out, d) ==
    [tool |-> tool, ok |-> TRUE, in |-> in, out |-> out, unistep |-> d]

DsCacheSource(p) ==
    /\ pc[p] = "ds_cache_source"
    /\ CanLock(p, source_lr_path(p))
    /\ locks' = Lock(p, source_lr_path(p))
    /\ loc' = [loc EXCEPT ![p].source_lr = source_lr_path(p)]
    /\ Goto(p, "ds_cache_target")
    /\ UNCHANGED <<run, fs, calls, result>>

DsCacheTarget(p) ==
    /\ pc[p] = "ds_cache_target"
    /\ CanLock(p, target_lr_path(p))
    /\ locks' = Lock(p, target_lr_path(p))
    /\ loc' = [loc EXCEPT ![p].target_lr = target_lr_path(p)]
    /\ Goto(p, "ds_resample_source")
    /\ UNCHANGED <<run, fs, calls, result>>

\* One resample call: the output is written, or the tool fails.
Resample(p, tool, in, out, next) ==
    LET c == ResampleCall(tool, in, out, run[p].downsample)
    IN  \/ /\ Call(p, c)
           /\ fs' = WriteFile(fs, out, Processed(fs[in], <<tool>> \o Str(run[p].downsample)))
           /\ Goto(p, next)
           /\ UNCHANGED <<locks, result>>
        \/ /\ ToolFails(p, c)
           /\ UNCHANGED fs

DsResampleSource(p) ==
    /\ pc[p] = "ds_resample_source"
    /\ Resample(p, "resample_smooth", run[p].source, loc[p].source_lr,
                "ds_resample_target")
    /\ UNCHANGED <<run, loc>>

DsResampleTarget(p) ==
    /\ pc[p] = "ds_resample_target"
    /\ Resample(p, "resample_smooth", run[p].target, loc[p].target_lr,
                "ds_mask_source")
    /\ UNCHANGED <<run, loc>>

DsMaskSource(p) ==
    /\ pc[p] = "ds_mask_source"
    /\ UNCHANGED run
    /\ IF run[p].source_mask = NoPath
       THEN Goto(p, "ds_mask_target") /\ UNCHANGED <<loc, fs, locks, calls, result>>
       ELSE /\ CanLock(p, source_mask_lr_path(p))
            /\ loc' = [loc EXCEPT ![p].source_mask_lr = source_mask_lr_path(p)]
            /\ LET c == ResampleCall("resample_labels", run[p].source_mask,
                                     source_mask_lr_path(p), run[p].downsample)
               IN  \/ /\ Call(p, c)
                      /\ fs' = WriteFile(fs, c.out,
                                 Processed(fs[c.in], <<c.tool>> \o Str(c.unistep)))
                      /\ Goto(p, "ds_mask_target")
                      /\ locks' = Lock(p, c.out)
                      /\ UNCHANGED result
                   \/ /\ ToolFails(p, c)
                      /\ UNCHANGED fs

DsMaskTarget(p) ==
    /\ pc[p] = "ds_mask_target"
    /\ UNCHANGED run
    /\ IF run[p].target_mask = NoPath
       THEN Goto(p, LoopOf(p)) /\ UNCHANGED <<loc, fs, locks, calls, result>>
       ELSE /\ CanLock(p, target_mask_lr_path(p))
            /\ loc' = [loc EXCEPT ![p].target_mask_lr = target_mask_lr_path(p)]
            /\ LET c == ResampleCall("resample_labels", run[p].target_mask,
                                     target_mask_lr_path(p), run[p].downsample)
               IN  \/ /\ Call(p, c)
                      /\ fs' = WriteFile(fs, c.out,
                                 Processed(fs[c.in], <<c.tool>> \o Str(c.unistep)))
                      /\ Goto(p, LoopOf(p))
                      /\ locks' = Lock(p, c.out)
                      /\ UNCHANGED result
                   \/ /\ ToolFails(p, c)
                      /\ UNCHANGED fs

----------------------------------------------------------------------------
(* linear_register: the loop over the stages (lines 382-492)               *)

Has(c, k) == k \in DOMAIN c

\* a variant that lets a stage override the -lsq6 family too
StageParameters_AlwaysOverride(c, parameters) ==
    IF "parameters" \in DOMAIN c THEN c.parameters ELSE parameters

\* lines 383-386
StageParameters(c, parameters) ==
    IF Has(c, "parameters") /\ parameters # "-lsq6" THEN c.parameters ELSE parameters

\* line 388: c.get('reverse', False)
Reverse(c) == IF Has(c, "reverse") THEN c.reverse ELSE FALSE

\* a variant that also skips the stage whose blur_fwhm equals `start`
SkipStage_AtStart(c, start, close) ==
    \/ ~IsNone(start) /\ start.q >= c.blur_fwhm.q
    \/ close /\ c.blur_fwhm.q > Mm(8)

\* a variant that applies the bound of `close` whether or not close is set
SkipStage_CloseIgnored(c, start, close) ==
    \/ ~IsNone(start) /\ start.q > c.blur_fwhm.q
    \/ c.blur_fwhm.q > Mm(8)

\* lines 390-393
SkipStage(c, start, close) ==
    \/ ~IsNone(start) /\ start.q > c.blur_fwhm.q
    \/ close /\ c.blur_fwhm.q > Mm(8)

\* the per-stage files: s_base+'_'+t_base+'_'+str(i)+suffix
StageName(p, i, suffix) ==
    s_base(p) \o <<"_">> \o t_base(p) \o <<"_", IntTok(i - 1), suffix>>

\* base+'_'+c['blur']+'_'+str(c['blur_fwhm'])+'.mnc'
BlurName(base, c) == base \o <<"_", c.blur, "_">> \o Str(c.blur_fwhm) \o <<".mnc">>

\* a variant that blurs again although the entry is there
NeedsBlur_Always(f) == TRUE

\* lines 402, 405: the entry is produced only when its file is missing
NeedsBlur(f) == ~Exists(f)

BlurCall(in, out, c) ==
    [tool |-> "blur", ok |-> TRUE, in |-> in, out |-> out,
     gmag |-> (c.blur = "dxyz"), fwhm |-> c.blur_fwhm]

BlurOp(c) == <<IF c.blur = "dxyz" THEN "gmag" ELSE "blur">> \o Str(c.blur_fwhm)

Stage(p) == loc[p].conf[loc[p].i]

\* a variant that blurs at every stage, a stage without blur included
L_Loop_AlwaysBlur(p) ==
    /\ pc[p] = "l_loop"
    /\ UNCHANGED <<run, fs, locks, calls, result>>
    /\ IF loc[p].i > Len(loc[p].conf)
       THEN Goto(p, "l_copy") /\ UNCHANGED loc
       ELSE IF SkipStage(Stage(p), run[p].start, run[p].close)
       THEN loc' = [loc EXCEPT ![p].i = @ + 1] /\ UNCHANGED pc
       ELSE /\ loc' = [loc EXCEPT
                   ![p].tmp_xfm = tmp(p, StageName(p, loc[p].i, ".xfm")),
                   ![p].tmp_source = loc[p].source_lr,
                   ![p].tmp_target = loc[p].target_lr,
                   ![p].init = <<>>]
            /\ Goto(p, "l_cache_source")

L_Loop(p) ==
    /\ pc[p] = "l_loop"
    /\ UNCHANGED <<run, fs, locks, calls, result>>
    /\ IF loc[p].i > Len(loc[p].conf)
       THEN Goto(p, "l_copy") /\ UNCHANGED loc
       ELSE IF SkipStage(Stage(p), run[p].start, run[p].close)
       THEN loc' = [loc EXCEPT ![p].i = @ + 1] /\ UNCHANGED pc
       ELSE /\ loc' = [loc EXCEPT
                   ![p].tmp_xfm = tmp(p, StageName(p, loc[p].i, ".xfm")),
                   ![p].tmp_source = loc[p].source_lr,
                   ![p].tmp_target = loc[p].target_lr,
                   ![p].init = <<>>]
            /\ Goto(p, IF Stage(p).blur_fwhm.q > 0 THEN "l_cache_source" ELSE "l_init")

\* line 401-402: tmp.cache() and the test of os.path.exists
L_CacheSource(p) ==
    LET f == cache(p, BlurName(s_base(p), Stage(p)))
    IN  /\ pc[p] = "l_cache_source"
        /\ CanLock(p, f)
        /\ locks' = Lock(p, f)
        /\ loc' = [loc EXCEPT ![p].tmp_source = f]
        /\ Goto(p, IF NeedsBlur(f) THEN "l_blur_source" ELSE "l_cache_target")
        /\ UNCHANGED <<run, fs, calls, result>>

\* A blur starts: its output file appears, not yet completely written.
BlurBegins(p, in, out, next) ==
    /\ Call(p, BlurCall(in, out, Stage(p)))
    /\ fs' = WriteFile(fs, out, Image(fs[in].origin, Append(fs[in].ops, BlurOp(Stage(p))), FALSE))
    /\ loc' = [loc EXCEPT ![p].ret = next]
    /\ Goto(p, "blurring")
    /\ UNCHANGED <<run, locks, result>>

\* line 403
L_BlurSource(p) ==
    /\ pc[p] = "l_blur_source"
    /\ BlurBegins(p, loc[p].source_lr, loc[p].tmp_source, "l_cache_target")

\* lines 404-405
L_CacheTarget(p) ==
    LET f == cache(p, BlurName(t_base(p), Stage(p)))
    IN  /\ pc[p] = "l_cache_target"
        /\ CanLock(p, f)
        /\ locks' = Lock(p, f)
        /\ loc' = [loc EXCEPT ![p].tmp_target = f]
        /\ Goto(p, IF NeedsBlur(f) THEN "l_blur_target" ELSE "l_init")
        /\ UNCHANGED <<run, fs, calls, result>>

\* line 406
L_BlurTarget(p) ==
    /\ pc[p] = "l_blur_target"
    /\ BlurBegins(p, loc[p].target_lr, loc[p].tmp_target, "l_init")

\* The blur in progress ends: the file is complete, or the tool fails and
\* leaves no output.
BlurEnds(p) ==
    LET c == calls[p][Len(calls[p])]
    IN  /\ pc[p] = "blurring"
        /\ UNCHANGED <<run, loc>>
        /\ \/ /\ fs' = [fs EXCEPT ![c.out].complete = TRUE]
              /\ Goto(p, loc[p].ret)
              /\ UNCHANGED <<locks, calls, result>>
           \/ /\ fs' = RemoveFile(fs, c.out)
              /\ calls' = [calls EXCEPT ![p][Len(calls[p])].ok = FALSE]
              /\ Leave(p, "mincError")

----------------------------------------------------------------------------
(* linear_register: the optimizer invocation of a stage                    *)

\* a variant that forgets to swap the images of a reversed stage
OptimizerImages_NoSwap(c, tmp_source, tmp_target) == <<tmp_source, tmp_target>>

\* lines 408-422: the two images, swapped for a reversed stage
OptimizerImages(c, tmp_source, tmp_target) ==
    IF Reverse(c) THEN <<tmp_target, tmp_source>> ELSE <<tmp_source, tmp_target>>

\* str() of a stage's 'trans' entry
PyStr(t) ==
    CASE t.ty = "str" -> t.v[1]
      [] t.ty = "NoneType" -> "None"
      [] t.ty = "list" -> "['" \o t.v[1] \o "']"

InitArg(flag, xfm, extra, needs) ==
    [flag |-> flag, xfm |-> xfm, extra |-> extra, needs |-> needs]

\* a variant that hands the chain state over as it is at a reversed stage
InitialTransform_NeverInverted(c, prev_xfm, init_xfm, close, inv_prev_xfm, com_xfm) ==
    IF prev_xfm # NoPath
    THEN InitArg("-transformation", prev_xfm, "", "")
    ELSE IF init_xfm # NoPath
    THEN InitArg("-transformation", init_xfm, "-est_center", "")
    ELSE IF close
    THEN InitArg("-identity", NoPath, "", "")
    ELSE IF c.trans # StrTrans
    THEN InitArg(PyStr(c.trans), NoPath, "", "")
    ELSE InitArg("-transformation", com_xfm, "", "com")

\* lines 427-454: the initial transformation handed to the optimizer.
\* needs = "xfminvert": xfm is still to be computed from prev_xfm;
\* needs = "com": xfm is still to be built from the centers of mass.
InitialTransform(c, prev_xfm, init_xfm, close, inv_prev_xfm, com_xfm) ==
    IF prev_xfm # NoPath
    THEN IF Reverse(c)
         THEN InitArg("-transformation", inv_prev_xfm, "", "xfminvert")
         ELSE InitArg("-transformation", prev_xfm, "", "")
    ELSE IF init_xfm # NoPath
    THEN InitArg("-transformation", init_xfm, "-est_center", "")
    ELSE IF close
    THEN InitArg("-identity", NoPath, "", "")
    ELSE IF c.trans # StrTrans
    THEN InitArg(PyStr(c.trans), NoPath, "", "")
    ELSE InitArg("-transformation", com_xfm, "", "com")

\* lines 458-468: the masks of a stage
StageMasks(c, source_mask, target_mask, source_mask_lr, target_mask_lr) ==
    IF Reverse(c)
    THEN [source_mask |-> IF source_mask # NoPath THEN source_mask_lr ELSE NoPath,
          model_mask |-> IF target_mask # NoPath THEN target_mask_lr ELSE NoPath]
    ELSE [source_mask |-> NoPath,
          model_mask |-> IF source_mask # NoPath THEN source_mask_lr ELSE NoPath]

\* a variant that forgets the rotation constraint
DofFlags_NoRotation(r) ==
    (IF r.noshear THEN <<"-w_shear", "0", "0", "0">> ELSE <<>>)
    \o (IF r.noscale THEN <<"-w_scales", "0", "0", "0">> ELSE <<>>)
    \o (IF r.noshift THEN <<"-w_translations", "0", "0", "0">> ELSE <<>>)

\* lines 471-478: the zero-weight constraints, in the order they are added
DofFlags(r) ==
    (IF r.noshear THEN <<"-w_shear", "0", "0", "0">> ELSE <<>>)
    \o (IF r.noscale THEN <<"-w_scales", "0", "0", "0">> ELSE <<>>)
    \o (IF r.noshift THEN <<"-w_translations", "0", "0", "0">> ELSE <<>>)
    \o (IF r.norot THEN <<"-w_rotations", "0", "0", "0">> ELSE <<>>)

InvertCall(in, out) == [tool |-> "xfminvert", ok |-> TRUE, in |-> in, out |-> out]

L_Init(p) ==
    LET a == InitialTransform(Stage(p), loc[p].prev_xfm, run[p].init_xfm,
                 run[p].close, tmp(p, StageName(p, loc[p].i, "_init.xfm")),
                 cache(p, s_base(p) \o <<"_init.xfm">>))
        c == InvertCall(loc[p].prev_xfm, a.xfm)
    IN  /\ pc[p] = "l_init"
        /\ UNCHANGED run
        /\ IF a.needs = "xfminvert"
           THEN \/ /\ Call(p, c)
                   /\ fs' = WriteFile(fs, c.out, Invert(fs[c.in]))
                   /\ loc' = [loc EXCEPT ![p].init = a]
                   /\ Goto(p, "l_opt")
                   /\ UNCHANGED <<locks, result>>
                \/ /\ ToolFails(p, c)
                   /\ UNCHANGED <<fs, loc>>
           ELSE /\ loc' = [loc EXCEPT ![p].init = a]
                /\ Goto(p, IF a.needs = "com" THEN "l_com" ELSE "l_opt")
                /\ UNCHANGED <<fs, locks, calls, result>>

StatsCall(in) == [tool |-> "stats", ok |-> TRUE, in |-> in, out |-> NoPath]
Param2XfmCall(out, tr) ==
    [tool |-> "param2xfm", ok |-> TRUE, in |-> NoPath, out |-> out, translation |-> tr]

\* param2xfm: a translation from the first image's center to the second's,
\* or the identity when no translation is given
TranslationXfm(p, first, second) ==
    [kind |-> "xfm", by |-> "param2xfm", proc |-> p, stage |-> 0,
     first |-> first, second |-> second, inv |-> FALSE]

\* lines 449-454: the translation between the centers of mass
L_InitCoM(p) ==
    LET xfm == loc[p].init.xfm
        c1 == StatsCall(run[p].source)
        c2 == StatsCall(run[p].target)
        c3 == Param2XfmCall(xfm, "com_trg-com_src")
    IN  /\ pc[p] = "l_com"
        /\ UNCHANGED <<run, loc>>
        /\ \/ /\ CanLock(p, xfm)
              /\ calls' = [calls EXCEPT ![p] = @ \o <<c1, c2, c3>>]
              /\ fs' = WriteFile(fs, xfm, TranslationXfm(p, run[p].source, run[p].target))
              /\ locks' = Lock(p, xfm)
              /\ Goto(p, "l_opt")
              /\ UNCHANGED result
           \/ /\ \E failed \in {<<c1>>, <<c1, c2>>} :
                    calls' = [calls EXCEPT ![p] =
                        @ \o [k \in 1..Len(failed) |->
                               [failed[k] EXCEPT !.ok = (k < Len(failed))]]]
              /\ Leave(p, "mincError")
              /\ UNCHANGED fs
           \/ /\ CanLock(p, xfm)
              /\ calls' = [calls EXCEPT ![p] = @ \o <<c1, c2, [c3 EXCEPT !.ok = FALSE]>>]
              /\ Leave(p, "mincError")
              /\ UNCHANGED fs

\* lines 408-482: the argument list of the stage's minctracc call
MinctraccCall(p) ==
    LET c == Stage(p)
        im == OptimizerImages(c, loc[p].tmp_source, loc[p].tmp_target)
        m == StageMasks(c, run[p].source_mask, run[p].target_mask,
                        loc[p].source_mask_lr, loc[p].target_mask_lr)
    IN  [tool |-> "minctracc", ok |-> TRUE, stage |-> loc[p].i,
         first |-> im[1], second |-> im[2],
         firstc |-> fs[im[1]], secondc |-> fs[im[2]],
         parameters |-> StageParameters(c, loc[p].parameters),
         objective |-> loc[p].objective,
         simplex |-> c.simplex, tol |-> c.tolerance, step |-> c.steps,
         init |-> loc[p].init,
         source_mask |-> m.source_mask, model_mask |-> m.model_mask,
         w |-> DofFlags(run[p]),
         out |-> loc[p].tmp_xfm]

\* a variant that catches the optimizer's failure and goes on to the next stage
L_Minctracc_Swallowed(p) ==
    LET c == MinctraccCall(p)
    IN  /\ pc[p] = "l_opt"
        /\ UNCHANGED <<run, locks, result>>
        /\ \/ /\ Call(p, c)
              /\ fs' = WriteFile(fs, c.out, Solution(p, c.stage, c.first, c.second))
              /\ Goto(p, "l_post")
              /\ UNCHANGED loc
           \/ /\ Call(p, [c EXCEPT !.ok = FALSE])
              /\ loc' = [loc EXCEPT ![p].i = @ + 1]
              /\ Goto(p, "l_loop")
              /\ UNCHANGED fs

\* line 482
L_Minctracc(p) ==
    LET c == MinctraccCall(p)
    IN  /\ pc[p] = "l_opt"
        /\ UNCHANGED <<run, loc>>
        /\ \/ /\ Call(p, c)
              /\ fs' = WriteFile(fs, c.out, Solution(p, c.stage, c.first, c.second))
              /\ Goto(p, "l_post")
              /\ UNCHANGED <<locks, result>>
           \/ /\ ToolFails(p, c)
              /\ UNCHANGED fs

\* lines 484-489: the transform handed on to the next stage
L_Post(p) ==
    LET inv_tmp_xfm == tmp(p, StageName(p, loc[p].i, "_sol.xfm"))
        c == InvertCall(loc[p].tmp_xfm, inv_tmp_xfm)
    IN  /\ pc[p] = "l_post"
        /\ UNCHANGED run
        /\ IF Reverse(Stage(p))
           THEN \/ /\ Call(p, c)
                   /\ fs' = WriteFile(fs, c.out, Invert(fs[c.in]))
                   /\ loc' = [loc EXCEPT ![p].prev_xfm = inv_tmp_xfm, ![p].i = @ + 1]
                   /\ Goto(p, "l_loop")
                   /\ UNCHANGED <<locks, result>>
                \/ /\ ToolFails(p, c)
                   /\ UNCHANGED <<fs, loc>>
           ELSE /\ loc' = [loc EXCEPT ![p].prev_xfm = loc[p].tmp_xfm, ![p].i = @ + 1]
                /\ Goto(p, "l_loop")
                /\ UNCHANGED <<fs, locks, calls, result>>

\* a variant that moves the file instead of copying it
CopyFile_Moved(files, src, dst) == RemoveFile(WriteFile(files, dst, files[src]), src)

\* shutil.copyfile(src, dst): dst gets the content, src stays
CopyFile(files, src, dst) == WriteFile(files, dst, files[src])

CopyCall(in, out) == [tool |-> "copyfile", ok |-> TRUE, in |-> in, out |-> out]

\* lines 491-492: shutil.copyfile(prev_xfm, output_xfm); with prev_xfm still
\* None the call raises TypeError before anything is written.
L_Copy(p) ==
    /\ pc[p] = "l_copy"
    /\ UNCHANGED <<run, loc>>
    /\ IF loc[p].prev_xfm = NoPath
       THEN /\ Leave(p, "TypeError")
            /\ UNCHANGED <<fs, calls>>
       ELSE /\ Call(p, CopyCall(loc[p].prev_xfm, run[p].output_xfm))
            /\ fs' = CopyFile(fs, loc[p].prev_xfm, run[p].output_xfm)
            /\ Leave(p, "output_xfm")

----------------------------------------------------------------------------
(* non_linear_register_full and non_linear_register_increment              *)

NlNone == [ty |-> "NoneType"]

\* a variant in which the increment driver keeps the default start
NlStart_Default(r) == r.start

\* lines 785-793: the increment driver is the full driver with start = level
NlStart(r) ==
    IF r.driver = "non_linear_register_increment" THEN r.level ELSE r.start

\* lines 575-636
NlParameters(parameters) ==
    IF parameters.ty = "NoneType" THEN DefaultNlParameters ELSE parameters

\* lines 569-573
N_OutputExists(p) == ~checkfiles({run[p].output_xfm})

N_Enter(p) ==
    /\ pc[p] = "start"
    /\ run[p].driver \in {"non_linear_register_full", "non_linear_register_increment"}
    /\ UNCHANGED <<run, fs, calls>>
    /\ IF N_OutputExists(p)
       THEN Leave(p, "None") /\ UNCHANGED loc
       ELSE /\ loc' = [loc EXCEPT ![p] =
                     [NoLoc EXCEPT !.i = 1,
                        !.conf = NlParameters(run[p].parameters).conf,
                        !.parameters = NlParameters(run[p].parameters),
                        !.source_lr = run[p].source,
                        !.target_lr = run[p].target,
                        !.source_mask_lr = run[p].source_mask,
                        !.target_mask_lr = run[p].target_mask]]
            /\ Goto(p, IF IsNone(run[p].downsample) THEN "n_loop" ELSE "ds_cache_source")
            /\ UNCHANGED <<locks, result>>

\* a variant that skips a stage below `level` and goes on with the next
NlStageAction_SkipBelowLevel(c, start, level) ==
    IF c.step.q > start.q \/ c.step.q < level.q THEN "continue" ELSE "run"

\* a variant that already stops at a stage whose step equals `level`
NlStageAction_BreakAtLevel(c, start, level) ==
    IF c.step.q > start.q THEN "continue"
    ELSE IF c.step.q <= level.q THEN "break"
    ELSE "run"

\* a variant that runs the stages below `level` instead of stopping
NlStageAction_NoBreak(c, start, level) ==
    IF c.step.q > start.q THEN "continue" ELSE "run"

\* lines 667-672: what the loop does with stage c
NlStageAction(c, start, level) ==
    IF c.step.q > start.q THEN "continue"
    ELSE IF c.step.q < level.q THEN "break"
    ELSE "run"

N_Loop(p) ==
    /\ pc[p] = "n_loop"
    /\ UNCHANGED <<run, fs, locks, calls, result>>
    /\ IF loc[p].i > Len(loc[p].conf)
       THEN Goto(p, "n_final") /\ UNCHANGED loc
       ELSE LET a == NlStageAction(Stage(p), NlStart(run[p]), run[p].level)
            IN  CASE a = "continue" ->
                       loc' = [loc EXCEPT ![p].i = @ + 1] /\ UNCHANGED pc
                  [] a = "break" ->
                       Goto(p, "n_final") /\ UNCHANGED loc
                  [] a = "run" ->
                       /\ loc' = [loc EXCEPT
                             ![p].tmp_xfm = tmp(p, StageName(p, loc[p].i, ".xfm")),
                             ![p].tmp_grid = tmp(p, StageName(p, loc[p].i, "_grid_0.mnc")),
                             ![p].tmp_source = loc[p].source_lr,
                             ![p].tmp_target = loc[p].target_lr]
                       /\ Goto(p, IF Stage(p).blur_fwhm.q > 0 THEN "n_cache_source"
                                  ELSE "n_opt")

\* lines 685-687
N_CacheSource(p) ==
    LET f == cache(p, BlurName(s_base(p), Stage(p)))
    IN  /\ pc[p] = "n_cache_source"
        /\ CanLock(p, f)
        /\ locks' = Lock(p, f)
        /\ loc' = [loc EXCEPT ![p].tmp_source = f]
        /\ Goto(p, IF NeedsBlur(f) THEN "n_blur_source" ELSE "n_unlock_source")
        /\ UNCHANGED <<run, fs, calls, result>>

\* line 688
N_BlurSource(p) ==
    /\ pc[p] = "n_blur_source"
    /\ BlurBegins(p, loc[p].source_lr, loc[p].tmp_source, "n_unlock_source")

\* line 689
N_UnlockSource(p) ==
    /\ pc[p] = "n_unlock_source"
    /\ locks' = unlock(p, loc[p].tmp_source)
    /\ Goto(p, "n_cache_target")
    /\ UNCHANGED <<run, loc, fs, calls, result>>

\* lines 691-692
N_CacheTarget(p) ==
    LET f == cache(p, BlurName(t_base(p), Stage(p)))
    IN  /\ pc[p] = "n_cache_target"
        /\ CanLock(p, f)
        /\ locks' = Lock(p, f)
        /\ loc' = [loc EXCEPT ![p].tmp_target = f]
        /\ Goto(p, IF NeedsBlur(f) THEN "n_blur_target" ELSE "n_unlock_target")
        /\ UNCHANGED <<run, fs, calls, result>>

\* line 693
N_BlurTarget(p) ==
    /\ pc[p] = "n_blur_target"
    /\ BlurBegins(p, loc[p].target_lr, loc[p].tmp_target, "n_unlock_target")

\* line 694
N_UnlockTarget(p) ==
    /\ pc[p] = "n_unlock_target"
    /\ locks' = unlock(p, loc[p].tmp_target)
    /\ Goto(p, "n_opt")
    /\ UNCHANGED <<run, loc, fs, calls, result>>

\* lines 713-718
NlInitialTransform(prev_xfm, init_xfm) ==
    IF prev_xfm # NoPath THEN InitArg("-transformation", prev_xfm, "", "")
    ELSE IF init_xfm # NoPath THEN InitArg("-transformation", init_xfm, "", "")
    ELSE InitArg("-identity", NoPath, "", "")

\* a variant that also drops the supersampling at a step of 4
NoSuper_UpTo4(c) == c.step.q <= Mm(4)

\* lines 709-710: -no_super is added for a step below 4
NoSuper(c) == c.step.q < Mm(4)

\* lines 697-728: the argument list of the stage's minctracc call
NlMinctraccCall(p) ==
    LET c == Stage(p)
    IN  [tool |-> "minctracc", ok |-> TRUE, stage |-> loc[p].i,
         first |-> loc[p].tmp_source, second |-> loc[p].tmp_target,
         firstc |-> fs[loc[p].tmp_source], secondc |-> fs[loc[p].tmp_target],
         parameters |-> "-nonlinear", objective |-> loc[p].parameters.cost,
         iterations |-> c.iterations,
         lattice_diam |-> <<3 * c.step.q, 3 * c.step.q, 3 * c.step.q>>,
         step |-> <<c.step.q, c.step.q, c.step.q>>,
         no_super |-> NoSuper(c),
         init |-> NlInitialTransform(loc[p].prev_xfm, run[p].init_xfm),
         source_mask |-> IF run[p].source_mask # NoPath
                         THEN loc[p].source_mask_lr ELSE NoPath,
         model_mask |-> IF run[p].target_mask # NoPath
                        THEN loc[p].target_mask_lr ELSE NoPath,
         w |-> <<>>,
         out |-> loc[p].tmp_xfm]

Grid(p, i, normalized) ==
    [kind |-> "grid", proc |-> p, stage |-> i, normalized |-> normalized]

\* lines 730-735: the optimizer writes the transform and its grid file
N_Minctracc(p) ==
    LET c == NlMinctraccCall(p)
    IN  /\ pc[p] = "n_opt"
        /\ UNCHANGED run
        /\ \/ /\ Call(p, c)
              /\ fs' = WriteFile(WriteFile(fs, c.out, Solution(p, c.stage, c.first, c.second)),
                                 loc[p].tmp_grid, Grid(p, c.stage, FALSE))
              /\ loc' = [loc EXCEPT ![p].prev_xfm = loc[p].tmp_xfm,
                                    ![p].prev_grid = loc[p].tmp_grid,
                                    ![p].i = @ + 1]
              /\ Goto(p, "n_loop")
              /\ UNCHANGED <<locks, result>>
           \/ /\ ToolFails(p, c)
              /\ UNCHANGED <<fs, loc>>

NoIterations == "mincError: No iterations were performed!"

final_grid(p) == tmp(p, <<"final_grid_0.mnc">>)
identity_xfm(p) == tmp(p, <<"identity.xfm">>)

CalcCall(in, out) == [tool |-> "calc", ok |-> TRUE, in |-> in, out |-> out]
MoveCall(in, out) == [tool |-> "move", ok |-> TRUE, in |-> in, out |-> out]
ConcatCall(ins, out) == [tool |-> "xfmconcat", ok |-> TRUE, in |-> ins, out |-> out]

\* lines 738-744: nothing ran, or the last grid is normalized
N_Calc(p) ==
    LET c == CalcCall(loc[p].prev_grid, final_grid(p))
    IN  /\ pc[p] = "n_final"
        /\ UNCHANGED <<run, loc>>
        /\ IF loc[p].prev_xfm = NoPath
           THEN Leave(p, NoIterations) /\ UNCHANGED <<fs, calls>>
           ELSE \/ /\ Call(p, c)
                   /\ fs' = WriteFile(fs, c.out, [fs[c.in] EXCEPT !.normalized = TRUE])
                   /\ Goto(p, "n_move")
                   /\ UNCHANGED <<locks, result>>
                \/ /\ ToolFails(p, c)
                   /\ UNCHANGED fs

\* line 745: shutil.move(final_grid_0.mnc, prev_grid)
N_Move(p) ==
    /\ pc[p] = "n_move"
    /\ Call(p, MoveCall(final_grid(p), loc[p].prev_grid))
    /\ fs' = RemoveFile(WriteFile(fs, loc[p].prev_grid, fs[final_grid(p)]), final_grid(p))
    /\ Goto(p, "n_identity")
    /\ UNCHANGED <<run, loc, locks, result>>

\* line 747
N_Identity(p) ==
    LET c == Param2XfmCall(identity_xfm(p), "")
    IN  /\ pc[p] = "n_identity"
        /\ UNCHANGED <<run, loc>>
        /\ \/ /\ Call(p, c)
              /\ fs' = WriteFile(fs, c.out, TranslationXfm(p, NoPath, NoPath))
              /\ Goto(p, "n_concat")
              /\ UNCHANGED <<locks, result>>
           \/ /\ ToolFails(p, c)
              /\ UNCHANGED fs

\* xfmconcat: the composition of the listed transforms, first applied first
Concat(p, parts) == [kind |-> "xfm", by |-> "xfmconcat", proc |-> p, parts |-> parts]

\* a variant that emits the last stage's transform as it is
FinalOutput_Copy(p, identity, prev_xfm) == fs[prev_xfm]

\* line 748: what is written to output_xfm
FinalOutput(p, identity, prev_xfm) == Concat(p, <<fs[identity], fs[prev_xfm]>>)

\* lines 748-749
N_Concat(p) ==
    LET c == ConcatCall(<<identity_xfm(p), loc[p].prev_xfm>>, run[p].output_xfm)
    IN  /\ pc[p] = "n_concat"
        /\ UNCHANGED <<run, loc>>
        /\ \/ /\ Call(p, c)
              /\ fs' = WriteFile(fs, c.out,
                         FinalOutput(p, identity_xfm(p), loc[p].prev_xfm))
              /\ Leave(p, "output_xfm")
           \/ /\ ToolFails(p, c)
              /\ UNCHANGED fs

----------------------------------------------------------------------------
(* The runs explored                                                       *)

MaxStages == 2      \* longest hand-written stage list

ImageA == Path("a", <<"A", ".mnc">>)
ImageB == Path("b", <<"B", ".mnc">>)
ImageA2 == Path("b", <<"A", ".mnc", ".gz">>)     \* another file named A
MaskA == Path("a", <<"A_mask", ".mnc">>)
MaskB == Path("b", <<"B_mask", ".mnc">>)
InitXfm == Path("a", <<"init", ".xfm">>)
OutXfm(p) == Path("out", <<"out", ToString(p), ".xfm">>)

InputFiles == {ImageA, ImageB, ImageA2, MaskA, MaskB}

\* Hand-written stages: a coarse stage asking for the center-of-mass start,
\* a fine one, an unblurred one, and reversed ones.
CustomStages ==
    { LinStage("blur", StrTrans, 16, 8, "0.01", 32),
      LinStage("blur", NoTrans, 4, 4, "0.004", 8),
      LinStage("blur", NoTrans, 0, 2, "0.004", 4),
      WithReverse(LinStage("blur", NoTrans, 4, 4, "0.004", 8), TRUE),
      WithReverse(WithParameters(LinStage("dxyz", NoTrans, 16, 4, "0.004", 4),
                                 "-lsq12"), TRUE) }

RECURSIVE SeqsUpTo(_, _)
SeqsUpTo(S, n) ==
    IF n = 0 THEN {<<>>}
    ELSE LET shorter == SeqsUpTo(S, n - 1)
         IN  shorter \cup {Append(q, x) : q \in shorter, x \in S}

LinConfs ==
    {ConfNone, ConfName("bestlinreg_s"), ConfName("bestlinreg_new"),
     ConfName("bestlinreg_20171223"), ConfName("my_registration")}
    \cup {ConfList(l) : l \in SeqsUpTo(CustomStages, MaxStages)}

DefaultLinRun ==
    [driver |-> "linear_register", source |-> ImageA, target |-> ImageB,
     output_xfm |-> OutXfm(1), parameters |-> "None",
     source_mask |-> NoPath, target_mask |-> NoPath, init_xfm |-> NoPath,
     objective |-> "None", conf |-> ConfNone, close |-> FALSE,
     norot |-> FALSE, noshear |-> FALSE, noshift |-> FALSE, noscale |-> FALSE,
     work_dir |-> "", start |-> NoNum, downsample |-> NoNum, level |-> NoNum]

\* every configuration, with the arguments that steer the chain of transforms
LinChainRuns ==
    { [DefaultLinRun EXCEPT !.conf = c, !.parameters = par, !.init_xfm = ix,
                            !.close = cl, !.start = st] :
        c \in LinConfs, par \in {"None", "-lsq6", "-lsq12"},
        ix \in {NoPath, InitXfm}, cl \in BOOLEAN,
        st \in {NoNum, PyInt(8), PyFloat(Mm(32))} }

\* the arguments that only add to the optimizer's argument list or move files
LinOptionRuns ==
    { [DefaultLinRun EXCEPT !.conf = c, !.norot = nr, !.noshear = nh,
                            !.noshift = nt, !.noscale = nc,
                            !.source_mask = sm, !.target_mask = tm,
                            !.downsample = ds, !.work_dir = wd] :
        c \in {ConfNone, ConfName("bestlinreg_20171223"), ConfName("my_registration")},
        nr \in BOOLEAN, nh \in BOOLEAN, nt \in BOOLEAN, nc \in BOOLEAN,
        sm \in {NoPath, MaskA}, tm \in {NoPath, MaskB},
        ds \in {NoNum, PyFloat(Mm(2))}, wd \in {"", "wd"} }

\* other pairs of input files
LinFileRuns ==
    { [DefaultLinRun EXCEPT !.conf = c, !.source = st[1], !.target = st[2],
                            !.downsample = ds, !.work_dir = wd] :
        c \in {ConfNone, ConfName("bestlinreg_20171223"),
                ConfList(<<LinStage("blur", NoTrans, 4, 4, "0.004", 8),
                           LinStage("blur", NoTrans, 0, 2, "0.004", 4)>>)},
        st \in {<<ImageB, ImageA>>, <<ImageA, ImageA2>>},
        ds \in {NoNum, PyFloat(Mm(2))}, wd \in {"", "wd"} }

NlConfs ==
    { NlNone,
      [DefaultNlParameters EXCEPT !.conf = <<>>] @@ [ty |-> "dict"],
      [DefaultNlParameters EXCEPT !.conf =
          << NlStage(Mm(8), Mm(4), 20), NlStage(Mm(2), 0, 10),
             NlStage(Mm(4), Mm(2), 10) >>] @@ [ty |-> "dict"],
      [DefaultNlParameters EXCEPT !.conf =
          << NlStage(Mm(16), Mm(8), 20), NlStage(Mm(8), Mm(4), 20),
             NlStage(Mm(2), 0, 10), NlStage(Mm(4), Mm(2), 10) >>] @@ [ty |-> "dict"] }

DefaultNlRun ==
    [driver |-> "non_linear_register_full", source |-> ImageA, target |-> ImageB,
     output_xfm |-> OutXfm(1), parameters |-> NlNone,
     source_mask |-> NoPath, target_mask |-> NoPath, init_xfm |-> NoPath,
     work_dir |-> "", start |-> PyInt(32), level |-> PyInt(4),
     downsample |-> NoNum]

NlRuns ==
    { [DefaultNlRun EXCEPT !.driver = d, !.parameters = par, !.start = st,
                           !.level = lv, !.init_xfm = ix] :
        d \in {"non_linear_register_full", "non_linear_register_increment"},
        par \in NlConfs,
        st \in {PyInt(32), PyInt(8), PyInt(4), PyFloat(2)},
        lv \in {PyInt(8), PyInt(4), PyInt(2), PyFloat(1)},
        ix \in {NoPath, InitXfm} }
    \cup
    { [DefaultNlRun EXCEPT !.start = PyInt(8), !.source = st[1], !.target = st[2],
                           !.parameters = par,
                           !.source_mask = sm, !.target_mask = tm,
                           !.downsample = ds, !.work_dir = wd] :
        par \in {NlNone,
                 [DefaultNlParameters EXCEPT !.conf =
                     << NlStage(Mm(8), Mm(4), 20), NlStage(Mm(4), 0, 10) >>]
                 @@ [ty |-> "dict"]},
        st \in {<<ImageA, ImageB>>, <<ImageA, ImageA2>>},
        sm \in {NoPath, MaskA}, tm \in {NoPath, MaskB},
        ds \in {NoNum, PyFloat(Mm(2))}, wd \in {"", "wd"} }

Runs == LinChainRuns \cup LinOptionRuns \cup LinFileRuns \cup NlRuns

----------------------------------------------------------------------------
(* Specifications                                                          *)

\* A transform left at the output path by an earlier run.
OldOutput ==
    [kind |-> "xfm", by |-> "earlier run", proc |-> 0, stage |-> 0,
     first |-> NoPath, second |-> NoPath, inv |-> FALSE]

InitialFiles(existing) ==
    [f \in InputFiles \cup {InitXfm} \cup existing |->
        IF f \in InputFiles THEN InputImage(f)
        ELSE IF f = InitXfm THEN GivenXfm(f)
        ELSE OldOutput]

InitWith(runs) ==
    /\ run \in runs
    /\ pc = [p \in DOMAIN run |-> "start"]
    /\ loc = [p \in DOMAIN run |-> NoLoc]
    /\ \E existing \in SUBSET {run[p].output_xfm : p \in DOMAIN run} :
          fs = InitialFiles(existing)
    /\ locks = {}
    /\ calls = [p \in DOMAIN run |-> <<>>]
    /\ result = [p \in DOMAIN run |-> "running"]

Init == InitWith([{1} -> Runs])

\* Two invocations at once on one work directory, each with its own output:
\* both drivers, with and without downsampling and masks.
SharedDir == "wd"

ConcLinRuns ==
    { [DefaultLinRun EXCEPT !.work_dir = SharedDir, !.conf = c,
                            !.downsample = dm[1], !.source_mask = dm[2],
                            !.target_mask = dm[3]] :
        c \in { ConfName("my_registration"),
                ConfList(<<LinStage("blur", NoTrans, 4, 4, "0.004", 8)>>),
                ConfList(<<LinStage("blur", StrTrans, 16, 8, "0.01", 32),
                           WithReverse(LinStage("blur", NoTrans, 4, 4, "0.004", 8), TRUE)>>) },
        dm \in { <<NoNum, NoPath, NoPath>>, <<PyFloat(Mm(2)), MaskA, MaskB>> } }

ConcNlRuns ==
    { [DefaultNlRun EXCEPT !.work_dir = SharedDir, !.start = PyInt(8),
                           !.parameters = par,
                           !.downsample = dm[1], !.source_mask = dm[2],
                           !.target_mask = dm[3]] :
        par \in {[DefaultNlParameters EXCEPT !.conf =
                     << NlStage(Mm(8), Mm(4), 20), NlStage(Mm(4), Mm(2), 10) >>]
                 @@ [ty |-> "dict"]},
        dm \in { <<NoNum, NoPath, NoPath>>, <<PyFloat(Mm(2)), MaskA, MaskB>> } }

ConcRuns == ConcLinRuns \cup ConcNlRuns

InitConc ==
    InitWith({ [p \in {1, 2} |-> [r[p] EXCEPT !.output_xfm = OutXfm(p)]] :
                  r \in [{1, 2} -> ConcRuns] })

Next ==
    \/ \E p \in Procs : L_Enter(p)
    \/ \E p \in Procs : L_External(p)
    \/ \E p \in Procs : DsCacheSource(p)
    \/ \E p \in Procs : DsCacheTarget(p)
    \/ \E p \in Procs : DsResampleSource(p)
    \/ \E p \in Procs : DsResampleTarget(p)
    \/ \E p \in Procs : DsMaskSource(p)
    \/ \E p \in Procs : DsMaskTarget(p)
    \/ \E p \in Procs : L_Loop(p)
    \/ \E p \in Procs : L_CacheSource(p)
    \/ \E p \in Procs : L_BlurSource(p)
    \/ \E p \in Procs : L_CacheTarget(p)
    \/ \E p \in Procs : L_BlurTarget(p)
    \/ \E p \in Procs : BlurEnds(p)
    \/ \E p \in Procs : L_Init(p)
    \/ \E p \in Procs : L_InitCoM(p)
    \/ \E p \in Procs : L_Minctracc(p)
    \/ \E p \in Procs : L_Post(p)
    \/ \E p \in Procs : L_Copy(p)
    \/ \E p \in Procs : N_Enter(p)
    \/ \E p \in Procs : N_Loop(p)
    \/ \E p \in Procs : N_CacheSource(p)
    \/ \E p \in Procs : N_BlurSource(p)
    \/ \E p \in Procs : N_UnlockSource(p)
    \/ \E p \in Procs : N_CacheTarget(p)
    \/ \E p \in Procs : N_BlurTarget(p)
    \/ \E p \in Procs : N_UnlockTarget(p)
    \/ \E p \in Procs : N_Minctracc(p)
    \/ \E p \in Procs : N_Calc(p)
    \/ \E p \in Procs : N_Move(p)
    \/ \E p \in Procs : N_Identity(p)
    \/ \E p \in Procs : N_Concat(p)

Spec == Init /\ [][Next]_vars

\* The increment driver next to the full driver called with start = level
\* and the same other arguments, each with its own output and temporaries.
IncrementRuns ==
    { [DefaultNlRun EXCEPT !.driver = "non_linear_register_increment",
                           !.parameters = par, !.level = lv, !.init_xfm = ix,
                           !.downsample = dm[1], !.source_mask = dm[2],
                           !.target_mask = dm[3]] :
        par \in NlConfs, lv \in {PyInt(8), PyInt(4), PyInt(2)},
        ix \in {NoPath, InitXfm},
        dm \in { <<NoNum, NoPath, NoPath>>, <<PyFloat(Mm(2)), MaskA, MaskB>> } }

AsFull(r) == [r EXCEPT !.driver = "non_linear_register_full", !.start = r.level]

InitPair ==
    /\ run \in { [p \in {1, 2} |->
                    [(IF p = 1 THEN r ELSE AsFull(r)) EXCEPT !.output_xfm = OutXfm(p)]] :
                  r \in IncrementRuns }
    /\ pc = [p \in DOMAIN run |-> "start"]
    /\ loc = [p \in DOMAIN run |-> NoLoc]
    /\ fs \in {InitialFiles({}), InitialFiles({OutXfm(1), OutXfm(2)})}
    /\ locks = {}
    /\ calls = [p \in DOMAIN run |-> <<>>]
    /\ result = [p \in DOMAIN run |-> "running"]

NlNext ==
    \/ \E p \in Procs : N_Enter(p)
    \/ \E p \in Procs : DsCacheSource(p)
    \/ \E p \in Procs : DsCacheTarget(p)
    \/ \E p \in Procs : DsResampleSource(p)
    \/ \E p \in Procs : DsResampleTarget(p)
    \/ \E p \in Procs : DsMaskSource(p)
    \/ \E p \in Procs : DsMaskTarget(p)
    \/ \E p \in Procs : N_Loop(p)
    \/ \E p \in Procs : N_CacheSource(p)
    \/ \E p \in Procs : N_BlurSource(p)
    \/ \E p \in Procs : N_UnlockSource(p)
    \/ \E p \in Procs : N_CacheTarget(p)
    \/ \E p \in Procs : N_BlurTarget(p)
    \/ \E p \in Procs : N_UnlockTarget(p)
    \/ \E p \in Procs : BlurEnds(p)
    \/ \E p \in Procs : N_Minctracc(p)
    \/ \E p \in Procs : N_Calc(p)
    \/ \E p \in Procs : N_Move(p)
    \/ \E p \in Procs : N_Identity(p)
    \/ \E p \in Procs : N_Concat(p)

SpecPair == InitPair /\ [][NlNext]_vars

SpecConc == InitConc /\ [][Next]_vars

----------------------------------------------------------------------------
(* Observations used by the properties                                     *)

Linear(p) == run[p].driver = "linear_register"
NonLinear(p) == run[p].driver # "linear_register"
Staged(p) == NonLinear(p) \/ ResolveConf(run[p].conf).ty = "list"

\* the positions of process p's calls of one tool
CallsOf(p, tool) == {k \in 1..Len(calls[p]) : calls[p][k].tool = tool}
Max(S) == CHOOSE x \in S : \A y \in S : y <= x
LastCall(p, tool) == calls[p][Max(CallsOf(p, tool))]

\* the optimizer invocations of p, in order
RECURSIVE Filter(_, _)
Filter(q, tool) ==
    IF q = <<>> THEN <<>>
    ELSE IF q[1].tool = tool THEN <<q[1]>> \o Filter(Tail(q), tool)
    ELSE Filter(Tail(q), tool)
OptimizerCalls(p) == Filter(calls[p], "minctracc")

\* the stage descriptor an optimizer invocation belongs to
StageOf(p, m) == loc[p].conf[m.stage]

\* the files a stage registers: the cached blurred source and target, or
\* the (downsampled) inputs when the stage asks for no blur
SourceInput(p, c) ==
    IF c.blur_fwhm.q > 0 THEN cache(p, BlurName(s_base(p), c)) ELSE loc[p].source_lr
TargetInput(p, c) ==
    IF c.blur_fwhm.q > 0 THEN cache(p, BlurName(t_base(p), c)) ELSE loc[p].target_lr

\* the direction of a transform: from the first image of the optimizer
\* invocation to the second, the other way round once inverted
Direction(x) == IF x.inv THEN <<x.second, x.first>> ELSE <<x.first, x.second>>

\* the optimizer invocation whose result is the chain state prev_xfm:
\* the last one of a stage the loop has left
Chained(p) == {k \in CallsOf(p, "minctracc") : calls[p][k].ok /\ calls[p][k].stage < loc[p].i}
LastChained(p) == calls[p][Max(Chained(p))]

----------------------------------------------------------------------------
(* Properties                                                              *)

\* C1: in linear_register every optimizer invocation of a reversed stage is
\* given (target input, source input) and the chain state prev_xfm is the
\* inverse of that invocation's output; a forward stage is given (source
\* input, target input) and its output is the chain state unchanged.  So the
\* chain state always goes from the stage's source input to its target input.
C1_ReversedStageInvertedIntoChain ==
    \A p \in Procs : Linear(p) =>
        /\ \A k \in CallsOf(p, "minctracc") :
              LET m == calls[p][k]
                  c == StageOf(p, m)
              IN  IF Reverse(c)
                  THEN m.first = TargetInput(p, c) /\ m.second = SourceInput(p, c)
                  ELSE m.first = SourceInput(p, c) /\ m.second = TargetInput(p, c)
        /\ (loc[p].prev_xfm # NoPath /\ pc[p] # "done") =>
              LET m == LastChained(p)
                  c == StageOf(p, m)
                  x == fs[loc[p].prev_xfm]
              IN  /\ fs[m.out] = Solution(p, m.stage, m.first, m.second)
                  /\ IF Reverse(c)
                     THEN loc[p].prev_xfm # m.out /\ x = Invert(fs[m.out])
                     ELSE loc[p].prev_xfm = m.out
                  /\ Direction(x) = <<SourceInput(p, c), TargetInput(p, c)>>

\* C1 witness: a reversed stage ran after a forward one, on two different
\* images, and its inverted solution is the chain state
C1_Witness ==
    \E p \in Procs :
        /\ Linear(p) /\ pc[p] = "l_loop" /\ loc[p].prev_xfm # NoPath
        /\ Reverse(StageOf(p, LastChained(p)))
        /\ \E k \in CallsOf(p, "minctracc") : ~Reverse(StageOf(p, calls[p][k]))
        /\ fs[loc[p].prev_xfm].inv
        /\ LastChained(p).first # LastChained(p).second

\* C2: when linear_register has executed a stage and returns, output_xfm
\* holds a copy of the chain transform of the last executed stage (its
\* inverted solution when that stage is reversed), going from the stage's
\* source input to its target input, and the temporary it was copied from is
\* still there.
C2_OutputIsCopyOfLastStage ==
    \A p \in Procs :
        (Linear(p) /\ Staged(p) /\ result[p] = "output_xfm") =>
            LET m == LastCall(p, "minctracc")
                c == StageOf(p, m)
                sol == Solution(p, m.stage, m.first, m.second)
                out == fs[run[p].output_xfm]
            IN  /\ out = IF Reverse(c) THEN Invert(sol) ELSE sol
                /\ Direction(out) = <<SourceInput(p, c), TargetInput(p, c)>>
                /\ Exists(loc[p].prev_xfm)
                /\ fs[loc[p].prev_xfm] = out
                /\ loc[p].prev_xfm # run[p].output_xfm

\* C2 witness: a run whose last executed stage is reversed has returned
C2_Witness ==
    \E p \in Procs :
        /\ Linear(p) /\ Staged(p) /\ result[p] = "output_xfm"
        /\ Reverse(StageOf(p, LastCall(p, "minctracc")))
        /\ Len(OptimizerCalls(p)) >= 2
        /\ fs[run[p].output_xfm].inv

\* C3: a driver called while output_xfm exists returns at once without an
\* error: it issues no external call and changes no file.
C3_ExistingOutputIsNoOp ==
    [][\A p \in Procs :
          (pc[p] = "start" /\ Exists(run[p].output_xfm)) =>
              /\ fs' = fs
              /\ calls' = calls
              /\ pc'[p] = "done"
              /\ result'[p] = "None"]_vars

\* C3 witness: a linear run given a list of two stages has returned like this
C3_Witness ==
    \E p \in Procs :
        /\ result[p] = "None" /\ calls[p] = <<>>
        /\ fs[run[p].output_xfm] = OldOutput
        /\ Linear(p) /\ run[p].conf.ty = "list" /\ Len(run[p].conf.stages) = 2

AllCallsOk(p) == \A k \in 1..Len(calls[p]) : calls[p][k].ok

\* every stage of the list is skipped by the start/close bounds
AllSkipped(p) ==
    LET conf == ResolveConf(run[p].conf).stages
    IN  /\ conf # <<>>
        /\ \A i \in 1..Len(conf) : SkipStage(conf[i], run[p].start, run[p].close)

\* C4: when start/close skip every stage, linear_register fails with the
\* "No iterations were performed" error and writes no output.
C4_AllSkippedRaisesNoIterations ==
    \A p \in Procs :
        (/\ Linear(p) /\ Staged(p) /\ AllSkipped(p)
         /\ pc[p] = "done" /\ result[p] # "None" /\ AllCallsOk(p)) =>
            /\ result[p] = NoIterations
            /\ ~Exists(run[p].output_xfm)

\* the stages the bounds let the non-linear loop execute: step within
\* [level, start] and no earlier stage that stops the loop
NlEligible(conf, start, level, i) ==
    /\ conf[i].step.q <= start.q
    /\ conf[i].step.q >= level.q
    /\ \A j \in 1..(i - 1) : ~(conf[j].step.q <= start.q /\ conf[j].step.q < level.q)
NlConf(p) == NlParameters(run[p].parameters).conf
NlExecuted(p) ==
    {i \in 1..Len(NlConf(p)) : NlEligible(NlConf(p), NlStart(run[p]), run[p].level, i)}

\* C5: when the bounds leave no stage to execute, non_linear_register_full
\* raises "No iterations were performed" without blurring, optimizing,
\* normalizing a grid, creating the identity or concatenating, and writes no
\* output.
C5_NoStageRaisesBeforeFinalization ==
    \A p \in Procs :
        (NonLinear(p) /\ NlExecuted(p) = {}) =>
            /\ \A k \in 1..Len(calls[p]) :
                  calls[p][k].tool \in {"resample_smooth", "resample_labels"}
            /\ Exists(run[p].output_xfm) => fs[run[p].output_xfm] = OldOutput
            /\ (pc[p] = "done" /\ result[p] # "None" /\ AllCallsOk(p)) =>
                  result[p] = NoIterations

\* C5 witness: the loop stopped at a stage below `level` before any stage
\* ran, and the error was raised
C5_Witness ==
    \E p \in Procs :
        /\ NonLinear(p) /\ result[p] = NoIterations
        /\ loc[p].i \in 2..Len(loc[p].conf)
        /\ calls[p] = <<>>
        /\ ~Exists(run[p].output_xfm)

\* linear_register(A, B, out.xfm) with the default configuration, no masks
\* and no start/close bounds
DefaultLinear(p) ==
    /\ Linear(p) /\ run[p].conf = ConfNone
    /\ run[p].source_mask = NoPath /\ run[p].target_mask = NoPath
    /\ IsNone(run[p].start) /\ ~run[p].close

\* the blur kind and FWHM (in mm) of the images of each optimizer invocation
BlurLevels(p) ==
    [k \in 1..Len(OptimizerCalls(p)) |->
        LET c == StageOf(p, OptimizerCalls(p)[k])
        IN  <<c.blur, c.blur_fwhm.q \div 4>>]

\* C6 as stated: the default run produces the output with exactly five
\* optimizer invocations whose FWHM strictly decreases from each to the next.
C6_StrictlyDecreasingBlur ==
    \A p \in Procs :
        (DefaultLinear(p) /\ result[p] = "output_xfm") =>
            /\ Exists(run[p].output_xfm)
            /\ Len(BlurLevels(p)) = 5
            /\ \A k \in 1..4 : BlurLevels(p)[k][2] > BlurLevels(p)[k + 1][2]

\* C6 amended: the default run produces the output with exactly five
\* optimizer invocations, on images blurred at 16, 8, 4 mm and then on
\* gradient magnitudes at 8, 4 mm: decreasing within each kind, not overall.
C6_DefaultBlurOrder ==
    \A p \in Procs : DefaultLinear(p) =>
        /\ Len(OptimizerCalls(p)) <= 5
        /\ \A k \in 1..Len(OptimizerCalls(p)) :
              LET m == OptimizerCalls(p)[k]
                  op == BlurOp(StageOf(p, m))
              IN  /\ m.firstc.ops[Len(m.firstc.ops)] = op
                  /\ m.secondc.ops[Len(m.secondc.ops)] = op
        /\ result[p] = "output_xfm" =>
              /\ Exists(run[p].output_xfm)
              /\ BlurLevels(p) = << <<"blur", 16>>, <<"blur", 8>>, <<"blur", 4>>,
                                    <<"dxyz", 8>>, <<"dxyz", 4>> >>

\* C6 witness: the default run has returned its output
C6_Witness ==
    \E p \in Procs :
        /\ DefaultLinear(p) /\ result[p] = "output_xfm"
        /\ Len(OptimizerCalls(p)) = 5
        /\ run[p] = DefaultLinRun

\* non_linear_register_full(A, B, out.xfm, start=8, level=4), default configuration
DefaultNonLinear8to4(p) ==
    /\ run[p].driver = "non_linear_register_full"
    /\ run[p].parameters = NlNone
    /\ run[p].start.q = Mm(8) /\ run[p].level.q = Mm(4)

StepsRun(p) == [k \in 1..Len(OptimizerCalls(p)) |-> OptimizerCalls(p)[k].step[1]]

\* C7 as stated: this run executes exactly the stages with 4 <= step <= 8,
\* and they are two.
C7_TwoStagesBetween4And8 ==
    \A p \in Procs :
        (DefaultNonLinear8to4(p) /\ result[p] = "output_xfm") =>
            /\ {OptimizerCalls(p)[k].stage : k \in 1..Len(OptimizerCalls(p))}
                 = {i \in 1..Len(loc[p].conf) :
                       /\ loc[p].conf[i].step.q >= Mm(4)
                       /\ loc[p].conf[i].step.q <= Mm(8)}
            /\ Len(OptimizerCalls(p)) = 2

\* C7 amended: this run executes exactly the stages with 4 <= step <= 8, and
\* they are three: 8 mm, 6 mm and 4 mm, one optimizer invocation each.
C7_ThreeStagesBetween4And8 ==
    \A p \in Procs : DefaultNonLinear8to4(p) =>
        /\ Len(OptimizerCalls(p)) <= 3
        /\ result[p] = "output_xfm" =>
              /\ {OptimizerCalls(p)[k].stage : k \in 1..Len(OptimizerCalls(p))}
                   = {i \in 1..Len(loc[p].conf) :
                         /\ loc[p].conf[i].step.q >= Mm(4)
                         /\ loc[p].conf[i].step.q <= Mm(8)}
              /\ StepsRun(p) = <<Mm(8), Mm(6), Mm(4)>>

\* C7 witness: the run has returned after its three stages
C7_Witness ==
    \E p \in Procs :
        /\ DefaultNonLinear8to4(p) /\ result[p] = "output_xfm"
        /\ Len(OptimizerCalls(p)) = 3

\* the steps of process p after its last optimizer invocation
Finalization(p) ==
    SubSeq(calls[p], Max(CallsOf(p, "minctracc")) + 1, Len(calls[p]))

\* the grid file that the optimizer invocation m wrote next to its transform
GridOf(p, m) == tmp(p, StageName(p, m.stage, "_grid_0.mnc"))

\* C8: a nonlinear run that executed at least one stage and whose steps all
\* succeed finishes with: normalize the last stage's grid (calc, then move it
\* back), create the identity transform, write output_xfm as xfmconcat of
\* [identity, last stage's transform]; nothing else ever writes output_xfm.
C8_FinalizationOrder ==
    \A p \in Procs : run[p].driver = "non_linear_register_full" =>
        /\ \A k \in 1..Len(calls[p]) :
              ("out" \in DOMAIN calls[p][k] /\ calls[p][k].out = run[p].output_xfm)
                  => calls[p][k].tool = "xfmconcat" /\ k = Len(calls[p])
        /\ (Exists(run[p].output_xfm) /\ fs[run[p].output_xfm] # OldOutput)
              => result[p] = "output_xfm"
        /\ (pc[p] = "done" /\ CallsOf(p, "minctracc") # {} /\ AllCallsOk(p))
              => result[p] = "output_xfm"
        /\ result[p] = "output_xfm" =>
              LET m == LastCall(p, "minctracc")
                  last == Solution(p, m.stage, m.first, m.second)
                  identity == TranslationXfm(p, NoPath, NoPath)
              IN  /\ Finalization(p) =
                        << CalcCall(GridOf(p, m), final_grid(p)),
                           MoveCall(final_grid(p), GridOf(p, m)),
                           Param2XfmCall(identity_xfm(p), ""),
                           ConcatCall(<<identity_xfm(p), m.out>>, run[p].output_xfm) >>
                  /\ fs[GridOf(p, m)] = Grid(p, m.stage, TRUE)
                  /\ fs[run[p].output_xfm] = Concat(p, <<identity, last>>)
                  /\ fs[run[p].output_xfm] # last

\* C8 witness: a run that executed exactly one stage has written its output
C8_Witness ==
    \E p \in Procs :
        /\ run[p].driver = "non_linear_register_full"
        /\ result[p] = "output_xfm"
        /\ Cardinality(CallsOf(p, "minctracc")) = 1

Flags(m) == {m.w[k] : k \in 1..Len(m.w)} \ {"0"}

\* C9: in a linear run every optimizer invocation carries exactly the
\* zero-weight constraints of the flags that are set, each followed by 0 0 0.
C9_DofFlagsOnEveryStage ==
    \A p \in Procs : Linear(p) =>
        \A k \in CallsOf(p, "minctracc") :
            LET m == calls[p][k]
            IN  /\ Flags(m) =
                      {f \in {"-w_rotations", "-w_scales", "-w_shear", "-w_translations"} :
                          \/ f = "-w_rotations" /\ run[p].norot
                          \/ f = "-w_scales" /\ run[p].noscale
                          \/ f = "-w_shear" /\ run[p].noshear
                          \/ f = "-w_translations" /\ run[p].noshift}
                /\ Len(m.w) = 4 * Cardinality(Flags(m))
                /\ \A j \in 1..Len(m.w) :
                      m.w[j] # "0" => SubSeq(m.w, j + 1, j + 3) = <<"0", "0", "0">>

\* C9 witness: a run with norot and noshear set, and the other two not, has
\* invoked the optimizer for its fifth stage
C9_Witness ==
    \E p \in Procs :
        /\ Linear(p) /\ run[p].norot /\ run[p].noshear
        /\ ~run[p].noscale /\ ~run[p].noshift
        /\ Len(OptimizerCalls(p)) = 5
        /\ OptimizerCalls(p)[5].w = <<"-w_shear", "0", "0", "0", "-w_rotations", "0", "0", "0">>

\* the successful or running blur computations that write the entry f
BlurRuns(f) ==
    {pk \in Procs \X (1..Max({Len(calls[p]) : p \in Procs})) :
        /\ pk[2] <= Len(calls[pk[1]])
        /\ calls[pk[1]][pk[2]].tool = "blur"
        /\ calls[pk[1]][pk[2]].out = f
        /\ calls[pk[1]][pk[2]].ok}

\* the blurred cache entries process p has handed to its optimizer, each
\* with the content the optimizer found in it
Handed(p) ==
    UNION { {<<m.first, m.firstc>>, <<m.second, m.secondc>>} :
              m \in {calls[p][k] : k \in {j \in CallsOf(p, "minctracc") :
                                           StageOf(p, calls[p][j]).blur_fwhm.q > 0}} }

\* C10: with two invocations on one work directory, a blurred cache entry is
\* computed at most once, and an entry both have handed to their optimizer
\* was computed exactly once and was complete and the same for both.
C10_OneBlurPerSharedArtifact ==
    /\ \A p \in Procs : \A f \in {h[1] : h \in Handed(p)} :
          run[p].work_dir = SharedDir => Cardinality(BlurRuns(f)) <= 1
    /\ \A h1 \in Handed(1) : \A h2 \in Handed(2) :
          (run[1].work_dir = SharedDir /\ run[2].work_dir = SharedDir
             /\ h1[1] = h2[1]) =>
              /\ Cardinality(BlurRuns(h1[1])) = 1
              /\ h1[2].complete /\ h2[2].complete
              /\ h1[2] = h2[2]

\* C10 witness: both invocations have finished after handing the same
\* blurred entry to their optimizers
C10_Witness ==
    /\ DOMAIN run = {1, 2}
    /\ run[1].work_dir = SharedDir /\ run[2].work_dir = SharedDir
    /\ result[1] = "output_xfm" /\ result[2] = "output_xfm"
    /\ \E h1 \in Handed(1) : \E h2 \in Handed(2) : h1[1] = h2[1]

\* the locks process p holds
Held(p) == {l[1] : l \in {h \in locks : h[2] = p}}

\* process p is past the check-then-produce sections of its current stage
PastBlurSections(p) ==
    /\ pc[p] \in {"l_init", "l_com", "l_opt", "l_post", "n_opt"}
    /\ Stage(p).blur_fwhm.q > 0

\* C11: in both drivers the lock of a blurred cache entry is held while the
\* entry is produced, and is released when the check-then-produce section is
\* left: after the blur succeeded, when the entry was already there, and when
\* the blur failed.
C11_LockReleasedAfterSection ==
    \A p \in Procs : Locked(p) =>
        /\ pc[p] = "blurring" => calls[p][Len(calls[p])].out \in Held(p)
        /\ PastBlurSections(p) =>
              /\ loc[p].tmp_source \notin Held(p)
              /\ loc[p].tmp_target \notin Held(p)
        /\ pc[p] = "done" => Held(p) = {}

\* the run's transform family: the argument, or its default (lines 330-331)
Family(p) == DefaultParameters(run[p].parameters)

\* C12: with the family -lsq6 every optimizer invocation of a linear run uses
\* -lsq6, override or not; with another family a stage with an override uses
\* the override and a stage without one uses the family.
C12_Lsq6NeverOverridden ==
    \A p \in Procs : Linear(p) =>
        \A k \in CallsOf(p, "minctracc") :
            LET m == calls[p][k]
                c == StageOf(p, m)
            IN  m.parameters =
                    IF Family(p) = "-lsq6" THEN "-lsq6"
                    ELSE IF "parameters" \in DOMAIN c THEN c.parameters
                    ELSE Family(p)

\* C12 witness: a -lsq6 run has invoked the optimizer for a stage that
\* carries an override to -lsq12
C12_Witness ==
    \E p \in Procs :
        /\ Linear(p) /\ Family(p) = "-lsq6"
        /\ \E k \in CallsOf(p, "minctracc") :
              /\ "parameters" \in DOMAIN StageOf(p, calls[p][k])
              /\ StageOf(p, calls[p][k]).parameters = "-lsq12"
              /\ calls[p][k].parameters = "-lsq6"

\* C13: once an external call of a run has failed, it is the run's last call,
\* the run has ended with the tool's error and output_xfm is not there.
C13_FailureAbortsRun ==
    \A p \in Procs : \A k \in 1..Len(calls[p]) :
        ~calls[p][k].ok =>
            /\ k = Len(calls[p])
            /\ pc[p] = "done"
            /\ result[p] = "mincError"
            /\ ~Exists(run[p].output_xfm)

\* C13 witness: a linear run is over after its optimizer failed at the first
\* of several stages, and a non-linear run after a failed blur
C13_Witness ==
    \E p \in Procs :
        /\ calls[p] # <<>> /\ ~calls[p][Len(calls[p])].ok
        /\ \/ /\ Linear(p) /\ calls[p][Len(calls[p])].tool = "minctracc"
              /\ calls[p][Len(calls[p])].stage < Len(loc[p].conf)
           \/ /\ NonLinear(p) /\ calls[p][Len(calls[p])].tool = "blur"

\* conf is a string that names no preset
UnknownConf(p) ==
    /\ Linear(p) /\ run[p].conf.ty = "str"
    /\ run[p].conf.name \notin PresetNames

\* C14: a linear run whose conf is neither a list nor the name of a preset
\* ends with ConfigurationError, without any external call or output.
C14_UnknownConfIsAnError ==
    \A p \in Procs :
        (UnknownConf(p) /\ pc[p] = "done" /\ result[p] # "None") =>
            /\ result[p] = "ConfigurationError"
            /\ calls[p] = <<>>
            /\ ~Exists(run[p].output_xfm)

\* the files a staged run would have made: everything outside the inputs
\* and the output
StagedFiles(p) == DOMAIN fs \ (InputFiles \cup {InitXfm, run[p].output_xfm})

\* C15: a linear run whose conf names an external program makes one call at
\* most, that program with the run's arguments, touches no cache entry and no
\* temporary file, and its output is what the program wrote.
C15_ExternalProgramBypassesStages ==
    \A p \in Procs : UnknownConf(p) =>
        /\ pc[p] \in {"start", "external", "done"}
        /\ Len(calls[p]) <= 1
        /\ Held(p) = {}
        /\ StagedFiles(p) = {}
        /\ calls[p] # <<>> =>
              /\ pc[p] = "done"
              /\ [calls[p][1] EXCEPT !.ok = TRUE] =
                    [tool |-> run[p].conf.name, ok |-> TRUE,
                     source |-> run[p].source, target |-> run[p].target,
                     out |-> run[p].output_xfm,
                     source_mask |-> run[p].source_mask,
                     target_mask |-> run[p].target_mask,
                     parameters |-> Family(p),
                     objective |-> DefaultObjective(run[p].objective),
                     init_xfm |-> run[p].init_xfm]
        /\ result[p] = "output_xfm" =>
              /\ Len(calls[p]) = 1 /\ calls[p][1].ok
              /\ fs[run[p].output_xfm] = ExternalXfm(p)

\* C15 witness: a run with an external program, masks, a work directory and
\* downsample set has returned its output
C15_Witness ==
    \E p \in Procs :
        /\ UnknownConf(p) /\ result[p] = "output_xfm"
        /\ ~IsNone(run[p].downsample) /\ run[p].work_dir # ""
        /\ run[p].source_mask # NoPath /\ run[p].target_mask # NoPath

\* a path as the run sees it: its own output and its own temporaries
Rel(p, f) ==
    IF f = run[p].output_xfm THEN Path("out", <<"output_xfm">>)
    ELSE IF f.d = TmpDir(p) THEN Path("tmp", f.n)
    ELSE f

\* an external call as the run sees it, whatever its outcome
View(p, c) ==
    IF c.tool = "minctracc"
    THEN [c EXCEPT !.ok = TRUE, !.first = Rel(p, c.first), !.second = Rel(p, c.second),
                   !.out = Rel(p, c.out), !.init.xfm = Rel(p, c.init.xfm),
                   !.source_mask = Rel(p, c.source_mask),
                   !.model_mask = Rel(p, c.model_mask)]
    ELSE IF c.tool = "xfmconcat"
    THEN [c EXCEPT !.ok = TRUE, !.in = [k \in DOMAIN c.in |-> Rel(p, c.in[k])],
                   !.out = Rel(p, c.out)]
    ELSE [c EXCEPT !.ok = TRUE, !.in = Rel(p, c.in), !.out = Rel(p, c.out)]

Outcomes(p) == [k \in 1..Len(calls[p]) |-> calls[p][k].ok]

\* C16: the increment driver with level L (process 1) and the full driver
\* with start = L and level = L on the same other arguments (process 2) issue
\* the same external calls as long as the tools answer alike, and end with the
\* same result or error; every stage the increment driver runs has step = L.
C16_IncrementIsFullWithStartEqualLevel ==
    /\ \A k \in 1..Len(calls[1]) :
          (/\ k <= Len(calls[2])
           /\ \A j \in 1..(k - 1) : calls[1][j].ok /\ calls[2][j].ok)
              => View(1, calls[1][k]) = View(2, calls[2][k])
    /\ (pc[1] = "done" /\ pc[2] = "done") =>
          /\ (AllCallsOk(1) /\ AllCallsOk(2)) => Len(calls[1]) = Len(calls[2])
          /\ Outcomes(1) = Outcomes(2) => result[1] = result[2]
    /\ \A k \in CallsOf(1, "minctracc") :
          StageOf(1, calls[1][k]).step.q = run[1].level.q

\* C16 witness: with downsampling and masks, both have returned their output
\* after the one stage whose step is L
C16_Witness ==
    /\ run[1].driver = "non_linear_register_increment"
    /\ pc[1] = "done" /\ pc[2] = "done"
    /\ result[1] = "output_xfm" /\ result[2] = "output_xfm"
    /\ Len(OptimizerCalls(1)) = 1 /\ ~IsNone(run[1].downsample)

\* the direction of a transform of run p in terms of the run's two images:
\* the optimizer's solution goes from its first image to its second, a
\* caller's init_xfm and the center-of-mass translation (com_trg - com_src)
\* go from source to target; inversion turns the direction round
Flip(d) == IF d = "source->target" THEN "target->source" ELSE "source->target"
RoleDirection(p, x) ==
    LET d == IF x.by = "minctracc" /\ Reverse(loc[p].conf[x.stage])
             THEN "target->source" ELSE "source->target"
    IN  IF x.inv THEN Flip(d) ELSE d

\* C17: every -transformation handed to the optimizer of a linear run goes
\* the way of the stage's pairing: source->target at a forward stage,
\* target->source at a reversed one, whether it is chained from the previous
\* stage, the caller's init_xfm or the synthesized translation.
C17_TransformationInStageDirection ==
    \A p \in Procs : Linear(p) =>
        \A k \in CallsOf(p, "minctracc") :
            LET m == calls[p][k]
            IN  m.init.flag = "-transformation" =>
                    RoleDirection(p, fs[m.init.xfm]) =
                        IF Reverse(StageOf(p, m)) THEN "target->source"
                        ELSE "source->target"

\* C17 restricted to transforms chained from a previous stage
C17_ChainedTransformationInStageDirection ==
    \A p \in Procs : Linear(p) =>
        \A k \in CallsOf(p, "minctracc") :
            LET m == calls[p][k]
            IN  (m.init.flag = "-transformation" /\ fs[m.init.xfm].by = "minctracc") =>
                    RoleDirection(p, fs[m.init.xfm]) =
                        IF Reverse(StageOf(p, m)) THEN "target->source"
                        ELSE "source->target"

\* C18: the initial transform of an optimizer invocation of a linear run is,
\* in this order of precedence: the previous stage's transform; else init_xfm
\* with -est_center; else -identity when close is set; else a translation
\* built from the centers of mass of target and source, as -transformation.
C18_InitialTransformPrecedence ==
    \A p \in Procs : Linear(p) =>
        \A k \in 1..Len(OptimizerCalls(p)) :
            LET m == OptimizerCalls(p)[k]
            IN  IF k > 1
                THEN /\ m.init.flag = "-transformation"
                     /\ fs[m.init.xfm].by = "minctracc"
                     /\ fs[m.init.xfm].stage = OptimizerCalls(p)[k - 1].stage
                ELSE IF run[p].init_xfm # NoPath
                THEN m.init = InitArg("-transformation", run[p].init_xfm, "-est_center", "")
                ELSE IF run[p].close
                THEN m.init.flag = "-identity"
                ELSE /\ m.init.flag = "-transformation"
                     /\ fs[m.init.xfm] = TranslationXfm(p, run[p].source, run[p].target)

\* C18 for stages whose 'trans' entry is the string '-est_translations'
C18_PrecedenceWithStringTrans ==
    \A p \in Procs : Linear(p) =>
        \A k \in 1..Len(OptimizerCalls(p)) :
            LET m == OptimizerCalls(p)[k]
            IN  (k = 1 /\ run[p].init_xfm = NoPath /\ ~run[p].close
                   /\ StageOf(p, m).trans = StrTrans) =>
                    /\ m.init.flag = "-transformation"
                    /\ fs[m.init.xfm] = TranslationXfm(p, run[p].source, run[p].target)

\* the stages a finished linear run has executed, and the ones it has left
\* out because of `start` and because of `close` (lines 390-393)
Executed(p) == {OptimizerCalls(p)[k].stage : k \in 1..Len(OptimizerCalls(p))}
SkippedByStart(p) ==
    {i \in (1..Len(loc[p].conf)) \ Executed(p) :
        ~IsNone(run[p].start) /\ run[p].start.q > loc[p].conf[i].blur_fwhm.q}
SkippedByClose(p) == ((1..Len(loc[p].conf)) \ Executed(p)) \ SkippedByStart(p)

\* the optimizer invocations of a run follow the configuration's order
InIndexOrder(p) ==
    \A k \in 1..(Len(OptimizerCalls(p)) - 1) :
        OptimizerCalls(p)[k].stage < OptimizerCalls(p)[k + 1].stage

\* C19: in a linear run the stages skipped because of `start` are a prefix of
\* the configuration, the stages skipped because of `close` are a suffix of
\* it, and the executed stages run in index order.
C19_StartSkipsPrefixCloseSkipsSuffix ==
    \A p \in Procs :
        (Linear(p) /\ Staged(p) /\ result[p] = "output_xfm") =>
            /\ \A i \in SkippedByStart(p) : \A j \in 1..i : j \in SkippedByStart(p)
            /\ \A i \in SkippedByClose(p) :
                  \A j \in i..Len(loc[p].conf) : j \in SkippedByClose(p)
            /\ InIndexOrder(p)

\* C19, the part about the order only
C19_ExecutedInIndexOrder ==
    \A p \in Procs : (Linear(p) /\ Staged(p)) => InIndexOrder(p)

\* C20: non_linear_register_full executes, in order, exactly the stages with
\* step <= start that come before the first stage with step <= start and
\* step < level; each of them has level <= step <= start.
C20_LoopEndsAtFirstStageBelowLevel ==
    \A p \in Procs : run[p].driver = "non_linear_register_full" =>
        /\ Executed(p) \subseteq NlExecuted(p)
        /\ InIndexOrder(p)
        /\ \A i \in Executed(p) :
              /\ NlConf(p)[i].step.q <= run[p].start.q
              /\ NlConf(p)[i].step.q >= run[p].level.q
        /\ result[p] = "output_xfm" => Executed(p) = NlExecuted(p)

\* C20 witness: a run has returned that left out a stage with
\* level <= step <= start because an earlier stage had step < level
C20_Witness ==
    \E p \in Procs :
        /\ run[p].driver = "non_linear_register_full"
        /\ result[p] = "output_xfm"
        /\ \E i \in (1..Len(NlConf(p))) \ Executed(p) :
              /\ NlConf(p)[i].step.q <= run[p].start.q
              /\ NlConf(p)[i].step.q >= run[p].level.q
              /\ \E j \in 1..(i - 1) : NlConf(p)[j].step.q < run[p].level.q
        /\ \E i \in (1..Len(NlConf(p))) \ Executed(p) :
              NlConf(p)[i].step.q > run[p].start.q

\* the stage at index i of a linear run lies within the bounds
WithinBounds(p, i) ==
    /\ IsNone(run[p].start) \/ loc[p].conf[i].blur_fwhm.q >= run[p].start.q
    /\ ~run[p].close \/ loc[p].conf[i].blur_fwhm.q <= Mm(8)

----------------------------------------------------------------------------
(* C22: cache entries are written once                                     *)

\* The calls a step adds to the log of process p.
NewCalls(p) ==
    { calls'[p][k] : k \in (Len(calls[p]) + 1)..Len(calls'[p]) }

\* The call writes an entry of the run's cache directory.
Produces(p, c) ==
    /\ "out" \in DOMAIN c
    /\ c.out # NoPath
    /\ c.out.d = CacheDir(p)

\* C22: the producer of a cache entry (blur, the downsampling resample, the
\* initial-translation transform) is invoked only when the entry's file does
\* not exist, so that an existing entry is never written again, within one
\* run and across runs sharing a work directory.
C22_CacheEntriesWrittenOnce ==
    [][\A p \in Procs : \A c \in NewCalls(p) :
          Produces(p, c) => c.out \notin DOMAIN fs]_vars

\* What the code does guard: a blur is invoked only for a missing entry.
C22_BlurOnlyWhenMissing ==
    [][\A p \in Procs : \A c \in NewCalls(p) :
          (Produces(p, c) /\ c.tool = "blur") => c.out \notin DOMAIN fs]_vars

----------------------------------------------------------------------------
(* C23: the blurred images of a stage come from the run's own inputs       *)

\* The content the optimizer found in the image of the source role and of
\* the target role: a reversed linear stage is given the target first.
RoleImages(p, m) ==
    IF Linear(p) /\ Reverse(StageOf(p, m))
    THEN [source |-> m.secondc, target |-> m.firstc]
    ELSE [source |-> m.firstc, target |-> m.secondc]

BlurredStageCalls(p) ==
    { calls[p][k] : k \in {j \in CallsOf(p, "minctracc") :
                             StageOf(p, calls[p][j]).blur_fwhm.q > 0} }

FromOwnInputs(p) ==
    \A m \in BlurredStageCalls(p) :
        /\ RoleImages(p, m).source.origin = run[p].source
        /\ RoleImages(p, m).target.origin = run[p].target

\* C23: in both drivers the blurred image the optimizer is given in the
\* source role was computed from the run's source and the one in the target
\* role from the run's target, whatever the two paths are, two files with
\* one base name included.
C23_BlurredImagesFromOwnInputs ==
    \A p \in Procs : FromOwnInputs(p)

\* It is so for inputs whose base names differ.
C23_FromOwnInputsWhenBasesDiffer ==
    \A p \in Procs : s_base(p) # t_base(p) => FromOwnInputs(p)

----------------------------------------------------------------------------
(* C24: the downsampled masks                                              *)

\* The mask files an optimizer invocation was given, by the input they
\* belong to: a forward linear stage passes the source's mask as
\* -model_mask and no mask of the target.
MasksHanded(p, m) ==
    IF Linear(p) /\ ~Reverse(StageOf(p, m))
    THEN [source |-> m.model_mask, target |-> NoPath]
    ELSE [source |-> m.source_mask, target |-> m.model_mask]

\* File f is the downsampled copy of the mask file `mask`.
DownsampledCopyOf(p, f, mask) ==
    /\ f \in DOMAIN fs
    /\ fs[f] = Processed(InputImage(mask), <<"resample_labels">> \o Str(run[p].downsample))

CopiesOfOwnMasks(p) ==
    \A k \in CallsOf(p, "minctracc") :
        LET h == MasksHanded(p, calls[p][k])
        IN  /\ h.source # NoPath => DownsampledCopyOf(p, h.source, run[p].source_mask)
            /\ h.target # NoPath => DownsampledCopyOf(p, h.target, run[p].target_mask)

Downsampling(p) == ~IsNone(run[p].downsample)

\* C24: with downsample set and both masks supplied, the two downsampled
\* masks are two distinct cache entries, and the mask the optimizer is given
\* for an input is the downsampled copy of the caller's mask of that input.
C24_DownsampledMasksKeptApart ==
    \A p \in Procs :
        (/\ Downsampling(p)
         /\ run[p].source_mask # NoPath /\ run[p].target_mask # NoPath
         /\ OptimizerCalls(p) # <<>>) =>
            /\ loc[p].source_mask_lr # loc[p].target_mask_lr
            /\ CopiesOfOwnMasks(p)

\* With one mask only, the optimizer is given that mask's downsampled copy.
C24_SingleMaskIsOwnCopy ==
    \A p \in Procs :
        (/\ Downsampling(p)
         /\ (run[p].source_mask = NoPath) # (run[p].target_mask = NoPath)) =>
            CopiesOfOwnMasks(p)

----------------------------------------------------------------------------
(* C25: the previous stage's transform at the next stage                   *)

\* The optimizer invocations of process p that stand before its k-th call
\* and succeeded: the stages executed before.
Before(p, k) == {j \in CallsOf(p, "minctracc") : j < k /\ calls[p][j].ok}

\* The k-th call of process p was handed the output of its j-th call, and
\* handed it inverted (an odd number of xfminvert) or as the optimizer wrote it.
HandedOutputOf(p, k, j) ==
    LET m == calls[p][k]
    IN  /\ m.init.flag = "-transformation"
        /\ m.init.xfm \in DOMAIN fs
        /\ LET x == fs[m.init.xfm]
           IN  [x EXCEPT !.inv = FALSE] =
                   Solution(p, calls[p][j].stage, calls[p][j].first, calls[p][j].second)
HandedInverted(p, k) == fs[calls[p][k].init.xfm].inv

\* C25: in linear_register a stage that follows an executed stage hands that
\* stage's transform to the optimizer, inverted exactly when one of the two
\* stages is reversed and the other is not, and as it is when both or
\* neither are reversed.
C25_InvertedIffOneReversed ==
    \A p \in Procs : (Linear(p) /\ Staged(p)) =>
        \A k \in CallsOf(p, "minctracc") :
            Before(p, k) # {} =>
                LET j == Max(Before(p, k))
                IN  /\ HandedOutputOf(p, k, j)
                    /\ HandedInverted(p, k) <=>
                          (Reverse(StageOf(p, calls[p][k])) # Reverse(StageOf(p, calls[p][j])))

\* a returned run whose two stages are both reversed
C25_Witness ==
    \E p \in Procs :
        /\ Linear(p) /\ Staged(p) /\ result[p] = "output_xfm"
        /\ \E k \in CallsOf(p, "minctracc") :
              /\ Before(p, k) # {}
              /\ Reverse(StageOf(p, calls[p][k]))
              /\ Reverse(StageOf(p, calls[p][Max(Before(p, k))]))

----------------------------------------------------------------------------
(* C26: with downsample, the stages work on the downsampled copies         *)

\* The image was computed from a copy downsampled to the step of run p.
FromDownsampled(p, img) ==
    /\ Len(img.ops) >= 1
    /\ img.ops[1] = <<"resample_smooth">> \o Str(run[p].downsample)

\* The downsampling of run p: one resample of each input, before any blur
\* and any optimizer invocation.
DownsampledOnceUpFront(p) ==
    /\ \A f \in {run[p].source, run[p].target} :
          Cardinality({k \in CallsOf(p, "resample_smooth") : calls[p][k].in = f}) <= 1
    /\ \A k \in CallsOf(p, "resample_smooth") :
          \A j \in CallsOf(p, "blur") \cup CallsOf(p, "minctracc") : k < j

\* Every blur of run p reads a downsampled copy and every optimizer
\* invocation is given images computed from downsampled copies.
StagesUseDownsampled(p) ==
    /\ \A k \in CallsOf(p, "blur") : calls[p][k].in \in {loc[p].source_lr, loc[p].target_lr}
    /\ \A k \in CallsOf(p, "minctracc") :
          /\ FromDownsampled(p, calls[p][k].firstc)
          /\ FromDownsampled(p, calls[p][k].secondc)

\* C26: with downsample set, the inputs are downsampled once, before the
\* first stage, and every image a stage blurs or registers derives from the
\* downsampled copies, a blurred entry reused from the cache of a shared
\* work directory included.
C26_StagesUseDownsampledCopies ==
    \A p \in Procs : Downsampling(p) =>
        /\ DownsampledOnceUpFront(p)
        /\ StagesUseDownsampled(p)

----------------------------------------------------------------------------
(* C27: a stage without blur                                               *)

\* The un-blurred inputs of run p: the downsampled copies when downsample
\* is set, else the files the caller named.
Unblurred(p) ==
    IF Downsampling(p)
    THEN [source |-> source_lr_path(p), target |-> target_lr_path(p)]
    ELSE [source |-> run[p].source, target |-> run[p].target]

\* The files an optimizer invocation was given, by role.
RoleFiles(p, m) ==
    IF Linear(p) /\ Reverse(StageOf(p, m))
    THEN [source |-> m.second, target |-> m.first]
    ELSE [source |-> m.first, target |-> m.second]

\* The last operation of a blurred artifact of stage c: a gradient
\* magnitude for the kind dxyz, a blur otherwise, at the stage's FWHM.
BlurredAs(img, c) ==
    /\ Len(img.ops) >= 1
    /\ img.ops[Len(img.ops)] = <<IF c.blur = "dxyz" THEN "gmag" ELSE "blur">> \o Str(c.blur_fwhm)

NotBlurred(img) == \A k \in 1..Len(img.ops) : img.ops[k][1] \notin {"blur", "gmag"}

ZeroStages(p) ==
    IF loc[p] = NoLoc THEN {}
    ELSE {loc[p].conf[i] : i \in {j \in 1..Len(loc[p].conf) : loc[p].conf[j].blur_fwhm.q = 0}}

\* C27: in both drivers a stage with blur_fwhm 0 hands the optimizer the
\* un-blurred inputs (the downsampled copies when downsample is set), and
\* neither a blur call nor a cache entry is made for it; a stage with
\* blur_fwhm above 0 hands over the cached blurred artifacts of its kind and
\* FWHM.
C27_ZeroFwhmBypassesBlur ==
    \A p \in Procs : Staged(p) =>
        /\ \A k \in CallsOf(p, "minctracc") :
              LET m == calls[p][k]
                  c == StageOf(p, m)
                  f == RoleFiles(p, m)
                  img == RoleImages(p, m)
              IN  IF c.blur_fwhm.q = 0
                  THEN /\ f = Unblurred(p)
                       /\ NotBlurred(img.source) /\ NotBlurred(img.target)
                  ELSE /\ f = [source |-> cache(p, BlurName(s_base(p), c)),
                               target |-> cache(p, BlurName(t_base(p), c))]
                       /\ BlurredAs(img.source, c) /\ BlurredAs(img.target, c)
        /\ \A k \in CallsOf(p, "blur") : calls[p][k].fwhm.q > 0
        /\ \A c \in ZeroStages(p) :
              /\ cache(p, BlurName(s_base(p), c)) \notin DOMAIN fs
              /\ cache(p, BlurName(t_base(p), c)) \notin DOMAIN fs

\* a returned downsampling run with a stage without blur and a blurred one
C27_Witness ==
    \E p \in Procs :
        /\ Staged(p) /\ Downsampling(p) /\ result[p] = "output_xfm"
        /\ \E k \in CallsOf(p, "minctracc") : StageOf(p, calls[p][k]).blur_fwhm.q = 0
        /\ \E k \in CallsOf(p, "minctracc") : StageOf(p, calls[p][k]).blur_fwhm.q > 0

----------------------------------------------------------------------------
(* C28: two invocations on one work directory, fairly scheduled            *)

\* The runs of the two invocations: the same pair of images in both orders,
\* with and without downsampling, in both drivers, and an external program.
FairLinRuns ==
    { [DefaultLinRun EXCEPT !.work_dir = SharedDir,
                            !.conf = ConfName("my_registration")],
      [DefaultLinRun EXCEPT !.work_dir = SharedDir,
          !.conf = ConfList(<<LinStage("blur", StrTrans, 16, 8, "0.01", 32),
                     WithReverse(LinStage("blur", NoTrans, 4, 4, "0.004", 8), TRUE)>>),
          !.downsample = PyFloat(Mm(2)), !.source_mask = MaskA, !.target_mask = MaskB],
      [DefaultLinRun EXCEPT !.work_dir = SharedDir,
          !.source = ImageB, !.target = ImageA,
          !.conf = ConfList(<<LinStage("blur", NoTrans, 4, 4, "0.004", 8)>>)] }

FairNlParameters ==
    [DefaultNlParameters EXCEPT !.conf =
        << NlStage(Mm(8), Mm(4), 20), NlStage(Mm(4), Mm(2), 10) >>] @@ [ty |-> "dict"]

FairNlRuns ==
    { [DefaultNlRun EXCEPT !.work_dir = SharedDir, !.start = PyInt(8),
                           !.parameters = FairNlParameters,
                           !.source = st[1], !.target = st[2],
                           !.downsample = dm[1], !.source_mask = dm[2],
                           !.target_mask = dm[3]] :
        st \in { <<ImageA, ImageB>>, <<ImageB, ImageA>> },
        dm \in { <<NoNum, NoPath, NoPath>>, <<PyFloat(Mm(2)), MaskA, MaskB>> } }

FairRuns == FairLinRuns \cup FairNlRuns

InitFair ==
    InitWith({ [p \in {1, 2} |-> [r[p] EXCEPT !.output_xfm = OutXfm(p)]] :
                  r \in [{1, 2} -> FairRuns] })

\* A step of process p: whatever its driver does next.
Step(p) ==
    \/ L_Enter(p) \/ L_External(p)
    \/ DsCacheSource(p) \/ DsCacheTarget(p)
    \/ DsResampleSource(p) \/ DsResampleTarget(p)
    \/ DsMaskSource(p) \/ DsMaskTarget(p)
    \/ L_Loop(p) \/ L_CacheSource(p) \/ L_BlurSource(p)
    \/ L_CacheTarget(p) \/ L_BlurTarget(p) \/ BlurEnds(p)
    \/ L_Init(p) \/ L_InitCoM(p) \/ L_Minctracc(p) \/ L_Post(p) \/ L_Copy(p)
    \/ N_Enter(p) \/ N_Loop(p)
    \/ N_CacheSource(p) \/ N_BlurSource(p) \/ N_UnlockSource(p)
    \/ N_CacheTarget(p) \/ N_BlurTarget(p) \/ N_UnlockTarget(p)
    \/ N_Minctracc(p) \/ N_Calc(p) \/ N_Move(p) \/ N_Identity(p) \/ N_Concat(p)

\* Each invocation is an operating-system process of its own: one that can
\* take a step (it is not waiting for a lock) eventually takes it.
SpecFair ==
    InitFair /\ [][Next]_vars /\ WF_vars(Step(1)) /\ WF_vars(Step(2))

AllDone == \A p \in Procs : pc[p] = "done"

\* C28: two invocations running at once on one work directory do not block
\* each other for ever on the cache locks: fairly scheduled, both finish,
\* with an output or an error, also when they need the same entries in
\* opposite order.
C28_BothEventuallyFinish == <>AllDone

\* A state in which both wait for an entry the other holds.
Waiting(p, f) == \E l \in locks : l[1] = f /\ l[2] # p
Blocked(p) ==
    \/ pc[p] \in {"l_cache_source", "n_cache_source"}
          /\ Waiting(p, cache(p, BlurName(s_base(p), Stage(p))))
    \/ pc[p] \in {"l_cache_target", "n_cache_target"}
          /\ Waiting(p, cache(p, BlurName(t_base(p), Stage(p))))
    \/ pc[p] = "ds_cache_source" /\ Waiting(p, source_lr_path(p))
    \/ pc[p] = "ds_cache_target" /\ Waiting(p, target_lr_path(p))
    \/ pc[p] = "ds_mask_source" /\ run[p].source_mask # NoPath
          /\ Waiting(p, source_mask_lr_path(p))
    \/ pc[p] = "ds_mask_target" /\ run[p].target_mask # NoPath
          /\ Waiting(p, target_mask_lr_path(p))
    \/ pc[p] = "l_com" /\ Waiting(p, loc[p].init.xfm)

\* No state has every unfinished invocation waiting for a lock.
C28_NeverAllBlocked == ~(\A p \in Procs : Blocked(p))

----------------------------------------------------------------------------
(* C29: the roles of the masks                                             *)

\* The caller's mask a file handed to the optimizer holds: the file itself,
\* or the mask its downsampled copy was computed from.
MaskIn(f) == IF f = NoPath THEN NoPath ELSE fs[f].origin

\* The masks an optimizer invocation was given under each flag.
MaskFlags(m) ==
    [source_mask |-> MaskIn(m.source_mask), model_mask |-> MaskIn(m.model_mask)]

\* A forward linear stage gives the source's mask as -model_mask and no
\* -source_mask; a reversed linear stage and every non-linear stage give the
\* source's mask as -source_mask and the target's as -model_mask.
MaskRoles(p) ==
    \A k \in CallsOf(p, "minctracc") :
        MaskFlags(calls[p][k]) =
            IF Linear(p) /\ ~Reverse(StageOf(p, calls[p][k]))
            THEN [source_mask |-> NoPath, model_mask |-> run[p].source_mask]
            ELSE [source_mask |-> run[p].source_mask, model_mask |-> run[p].target_mask]

\* C29: a forward stage of linear_register passes the source mask as
\* -model_mask and never the target mask; a reversed stage passes the source
\* mask as -source_mask and the target mask as -model_mask; the non-linear
\* driver passes the source mask as -source_mask and the target mask as
\* -model_mask at every stage.
C29_MaskRoles ==
    \A p \in Procs : Staged(p) => MaskRoles(p)

BothMasksDownsampled(p) ==
    Downsampling(p) /\ run[p].source_mask # NoPath /\ run[p].target_mask # NoPath

\* The roles are those unless the two downsampled masks share their entry.
C29_MaskRolesWithoutSharedEntry ==
    \A p \in Procs : (Staged(p) /\ ~BothMasksDownsampled(p)) => MaskRoles(p)

----------------------------------------------------------------------------
(* C30: the files of a stage                                               *)

StageSuffixes == {".xfm", "_init.xfm", "_sol.xfm", "_grid_0.mnc"}

\* The files stage i of process p writes: its transform, for a reversed
\* linear stage the inverted input and the inverted solution, for a
\* non-linear stage the grid.
StageFiles(p, i) == { tmp(p, StageName(p, i, s)) : s \in StageSuffixes }

AllStageFiles(p) ==
    IF loc[p] = NoLoc THEN {} ELSE UNION { StageFiles(p, i) : i \in 1..Len(loc[p].conf) }

\* The stages of a run write to paths of their own: four files a stage,
\* no two of them the same.
DistinctStagePaths(p) ==
    loc[p] # NoLoc => Cardinality(AllStageFiles(p)) = 4 * Len(loc[p].conf)

\* The step leaves file f as it is.
Kept(f) == f \in DOMAIN fs' /\ fs'[f] = fs[f]

\* C30: in both drivers the files of a stage (its transform, the inverted
\* input and solution of a reversed stage, the grid of a non-linear stage)
\* lie under paths no other stage uses and, once written, are not written
\* again: later stages and the finalization only read them.
C30_StageFilesNeverRewritten ==
    /\ [](\A p \in Procs : DistinctStagePaths(p))
    /\ [][\A p \in Procs : \A f \in AllStageFiles(p) \cap DOMAIN fs : Kept(f)]_vars

\* The one step that writes a stage's file again: the finalization of the
\* non-linear driver moves the normalized grid over the last stage's grid.
C30_OnlyLastGridIsReplaced ==
    /\ [](\A p \in Procs : DistinctStagePaths(p))
    /\ [][\A p \in Procs : \A f \in AllStageFiles(p) \cap DOMAIN fs :
            Kept(f) \/ (NonLinear(p) /\ pc[p] = "n_move" /\ f = loc[p].prev_grid)]_vars

----------------------------------------------------------------------------
(* C31: the step-dependent arguments of a non-linear stage                 *)

NlCalls(p) == { calls[p][k] : k \in CallsOf(p, "minctracc") }

\* C31: in non_linear_register_full the optimizer invocation of a stage has
\* -no_super exactly when the stage's step is below 4, and its -lattice_diam
\* is three times the stage's step on each of the three axes.
C31_NoSuperBelow4AndLatticeDiam ==
    \A p \in Procs : NonLinear(p) =>
        \A m \in NlCalls(p) :
            LET step == StageOf(p, m).step.q
            IN  /\ m.no_super <=> step < Mm(4)
                /\ m.lattice_diam = <<step + step + step, step + step + step,
                                      step + step + step>>
                /\ m.step = <<step, step, step>>

\* a returned run with a stage at a step of exactly 4, without the flag,
\* and a finer stage with it
C31_Witness ==
    \E p \in Procs :
        /\ NonLinear(p) /\ result[p] = "output_xfm"
        /\ \E m \in NlCalls(p) : StageOf(p, m).step.q = Mm(4) /\ ~m.no_super
        /\ \E m \in NlCalls(p) : StageOf(p, m).step.q < Mm(4) /\ m.no_super

====
